---- MODULE Spec2Model ----
(***************************************************************************)
(* Three-position synthesis and position analysis of a planar four-bar     *)
(* linkage (synthesis.js), modelled in exact arithmetic.                   *)
(*                                                                         *)
(* Numbers.  A JavaScript number that stands for a length, a coordinate, a *)
(* cosine or a determinant is a record [a, b, c] denoting the real number  *)
(* (a + b*sqrt(3)) / c of the field Q(sqrt 3), kept in lowest terms with   *)
(* c > 0.  The non-finite values have c = 0: NaN = [0,0,0],                *)
(* Infinity = [1,0,0], -Infinity = [-1,0,0].  Signed zeros are not kept    *)
(* apart: 1/0 is Infinity.                                                 *)
(*                                                                         *)
(* Angles.  A JavaScript number that stands for an angle in radians is a   *)
(* record [k, v]: k = "num" and v an integer count of the unit pi/PI, or   *)
(* k = "nan" (NaN), or k = "undef" (the value undefined).  With PI = 6 the *)
(* unit is 30 degrees, and on this lattice cos, sin, acos and atan2 are    *)
(* exact in Q(sqrt 3).  Inputs are drawn from the lattice; every result is *)
(* then the exact real value that the floating-point code approximates.    *)
(***************************************************************************)
EXTENDS Integers, Sequences, FiniteSets, TLC

----------------------------------------------------------------------------
(* Integer helpers *)

IAbs(n) == IF n < 0 THEN -n ELSE n

ISgn(n) == IF n > 0 THEN 1 ELSE IF n < 0 THEN -1 ELSE 0

RECURSIVE GCD(_, _)
GCD(m, n) == IF n = 0 THEN m ELSE GCD(n, m % n)

(* sign of r/b - (sqrt(3) - 1) for integers 0 <= r < b, by continued       *)
(* fraction expansion (sqrt(3) - 1 = [0; 1, 2, 1, 2, ...]); no products.   *)
RECURSIVE CmpFrac(_, _)
CmpFrac(r, b) ==
  IF r = 0 THEN -1
  ELSE IF b \div r >= 2 THEN -1
  ELSE IF r \div (b - r) >= 3 THEN 1
  ELSE IF r \div (b - r) <= 1 THEN -1
  ELSE CmpFrac(r - 2 * (b - r), b - r)

(* sign of a - b*sqrt(3) for integers a >= 0, b > 0 *)
CmpSqrt3(a, b) ==
  IF a \div b >= 2 THEN 1 ELSE IF a \div b = 0 THEN -1 ELSE CmpFrac(a - b, b)

----------------------------------------------------------------------------
(* The field Q(sqrt 3) with the IEEE non-finite values *)

NaN == [a |-> 0, b |-> 0, c |-> 0]
PosInf == [a |-> 1, b |-> 0, c |-> 0]
NegInf == [a |-> -1, b |-> 0, c |-> 0]

IsNaN(x) == x.c = 0 /\ x.a = 0
IsInf(x) == x.c = 0 /\ x.a # 0
IsFinite(x) == x.c # 0

(* (a + b*sqrt 3)/c in lowest terms, c # 0 *)
Reduced(a, b, c, g) ==
  IF c < 0
  THEN [a |-> -(a \div g), b |-> -(b \div g), c |-> -(c \div g)]
  ELSE [a |-> a \div g, b |-> b \div g, c |-> c \div g]

Q(a, b, c) == Reduced(a, b, c, GCD(GCD(IAbs(a), IAbs(b)), IAbs(c)))

Int2Q(n) == [a |-> n, b |-> 0, c |-> 1]
Zero == Int2Q(0)
One == Int2Q(1)

(* -0.  The sign of a zero is kept from the quotient that produced it to   *)
(* the division that consumes it; sums and products give +0.               *)
NegZero == [a |-> 0, b |-> 0, c |-> -1]
Unsigned(x) == IF x = NegZero THEN Zero ELSE x

(* -1, 0 or 1: the sign of a finite or infinite x (0 for NaN) *)
Sign(x) ==
  IF x.c = 0 THEN ISgn(x.a)
  ELSE IF x.a >= 0 /\ x.b >= 0 THEN (IF x.a = 0 /\ x.b = 0 THEN 0 ELSE 1)
  ELSE IF x.a <= 0 /\ x.b <= 0 THEN -1
  ELSE IF x.a > 0 THEN CmpSqrt3(x.a, -x.b)
  ELSE -CmpSqrt3(-x.a, x.b)

Neg(x) == [a |-> -x.a, b |-> -x.b, c |-> IAbs(x.c)]

(* u + v for finite u, v, over the common denominator u.c * v.c / g *)
AddOver(u, v, g) ==
  Q(u.a * (v.c \div g) + v.a * (u.c \div g),
    u.b * (v.c \div g) + v.b * (u.c \div g),
    u.c * (v.c \div g))

AddFinite(u, v) == AddOver(u, v, GCD(u.c, v.c))

Add(x, y) ==
  IF IsNaN(x) \/ IsNaN(y) THEN NaN
  ELSE IF IsInf(x) THEN (IF IsInf(y) /\ y.a # x.a THEN NaN ELSE x)
  ELSE IF IsInf(y) THEN y
  ELSE AddFinite(Unsigned(x), Unsigned(y))

Sub(x, y) == Add(x, Neg(y))

(* u * v for finite u, v, with u's numerator reduced by g1 against v.c  *)
(* and v's numerator by g2 against u.c                                     *)
MulOver(u, v, g1, g2) ==
  Q((u.a \div g1) * (v.a \div g2) + 3 * ((u.b \div g1) * (v.b \div g2)),
    (u.a \div g1) * (v.b \div g2) + (u.b \div g1) * (v.a \div g2),
    (u.c \div g2) * (v.c \div g1))

MulFinite(u, v) ==
  MulOver(u, v, GCD(GCD(IAbs(u.a), IAbs(u.b)), v.c),
                GCD(GCD(IAbs(v.a), IAbs(v.b)), u.c))

Mul(x, y) ==
  IF IsNaN(x) \/ IsNaN(y) THEN NaN
  ELSE IF IsInf(x) \/ IsInf(y)
       THEN (IF Sign(x) * Sign(y) = 0 THEN NaN
             ELSE IF Sign(x) * Sign(y) > 0 THEN PosInf ELSE NegInf)
  ELSE MulFinite(Unsigned(x), Unsigned(y))

(* 1/x for finite x # 0: c*(a - b*sqrt 3) / (a^2 - 3*b^2) *)
Inv(x) == Q(x.a * x.c, -(x.b * x.c), x.a * x.a - 3 * (x.b * x.b))

(* x / y with the IEEE rules for zero and non-finite operands *)
Div(x, y) ==
  IF IsNaN(x) \/ IsNaN(y) THEN NaN
  ELSE IF IsInf(y) THEN (IF IsInf(x) THEN NaN ELSE Zero)
  ELSE IF Sign(y) = 0
       THEN (IF Sign(x) = 0 THEN NaN
             ELSE IF Sign(x) * y.c > 0 THEN PosInf ELSE NegInf)
  ELSE IF IsInf(x) THEN (IF Sign(x) * Sign(y) > 0 THEN PosInf ELSE NegInf)
  ELSE IF Sign(x) = 0 THEN (IF x.c * Sign(y) < 0 THEN NegZero ELSE Zero)
  ELSE Mul(x, Inv(y))

(* x < y; false when either is NaN *)
Lt(x, y) ==
  /\ ~IsNaN(x)
  /\ ~IsNaN(y)
  /\ x # y
  /\ Sign(Sub(x, y)) < 0

Gt(x, y) == Lt(y, x)

(* Math.abs *)
MathAbs(x) == IF Sign(x) < 0 THEN Neg(x) ELSE x

(* Math.max(x, y), Math.min(x, y): NaN if either argument is NaN *)
MathMax(x, y) == IF IsNaN(x) \/ IsNaN(y) THEN NaN ELSE IF Lt(x, y) THEN y ELSE x
MathMin(x, y) == IF IsNaN(x) \/ IsNaN(y) THEN NaN ELSE IF Lt(y, x) THEN y ELSE x

(* x * 10^k < 1, for x >= 0: the comparison x < 1e-k without large numbers *)
RECURSIVE BelowPow10(_, _)
BelowPow10(x, k) ==
  IF ~Lt(x, One) THEN FALSE
  ELSE IF k = 0 THEN TRUE
  ELSE BelowPow10(Mul(x, Int2Q(10)), k - 1)

----------------------------------------------------------------------------
(* Math.sqrt: the non-negative real whose square is x, kept as a surd      *)
(* [sgn, sq] that denotes sgn * sqrt(sq); NaN for x < 0 and for NaN.       *)

SurdNaN == [sgn |-> 0, sq |-> NaN]

MathSqrt(x) ==
  IF IsNaN(x) \/ Sign(x) < 0 THEN SurdNaN ELSE [sgn |-> Sign(x), sq |-> x]

(* s * f for a surd s and a number f *)
SurdOf(sq, sgn) == IF IsNaN(sq) THEN SurdNaN ELSE [sgn |-> sgn, sq |-> sq]

SurdMul(s, f) == SurdOf(Mul(s.sq, Mul(f, f)), s.sgn * Sign(f))

SurdIsNaN(s) == IsNaN(s.sq)
SurdIsFinite(s) == IsFinite(s.sq)

----------------------------------------------------------------------------
(* Angles on the lattice of multiples of pi/PI *)

PI == 6

Ang(v) == [k |-> "num", v |-> v]
AngNaN == [k |-> "nan", v |-> 0]
Undefined == [k |-> "undef", v |-> 0]

AngIsNum(x) == x.k = "num"

(* x + y and x - y on angles: NaN when an operand is NaN or undefined *)
AngAdd(x, y) == IF AngIsNum(x) /\ AngIsNum(y) THEN Ang(x.v + y.v) ELSE AngNaN
AngSub(x, y) == IF AngIsNum(x) /\ AngIsNum(y) THEN Ang(x.v - y.v) ELSE AngNaN

(* cos(k*pi/6) for k = 0..11 *)
CosTable ==
  << Q(1, 0, 1), Q(0, 1, 2), Q(1, 0, 2), Q(0, 0, 1), Q(-1, 0, 2), Q(0, -1, 2),
     Q(-1, 0, 1), Q(0, -1, 2), Q(-1, 0, 2), Q(0, 0, 1), Q(1, 0, 2), Q(0, 1, 2) >>

MathCos(x) == IF AngIsNum(x) THEN CosTable[(x.v % (2 * PI)) + 1] ELSE NaN

(* sin(t) = cos(t - pi/2) *)
MathSin(x) == IF AngIsNum(x) THEN CosTable[((x.v - PI \div 2) % (2 * PI)) + 1] ELSE NaN

(* Math.acos: the angle in [0, pi] whose cosine is x; NaN outside [-1, 1] *)
MathAcos(x) ==
  IF IsNaN(x) \/ Lt(One, x) \/ Lt(x, Neg(One)) THEN AngNaN
  ELSE Ang(CHOOSE v \in 0..PI : MathCos(Ang(v)) = Unsigned(x))

(* Math.atan2(y, x): the angle in (-pi, pi] of the direction (x, y) *)
MathAtan2(y, x) ==
  IF IsNaN(x) \/ IsNaN(y) THEN AngNaN
  ELSE IF Sign(x) = 0 /\ Sign(y) = 0 THEN Ang(0)
  ELSE Ang(CHOOSE v \in (1 - PI)..PI :
             /\ Mul(x, MathSin(Ang(v))) = Mul(y, MathCos(Ang(v)))
             /\ Sign(Add(Mul(x, MathCos(Ang(v))), Mul(y, MathSin(Ang(v))))) > 0)

(* deg2rad (synthesis.js:17): (deg * Math.PI) / 180 *)
deg2rad(deg) == Ang((deg * PI) \div 180)

----------------------------------------------------------------------------
(* solve3x3 (synthesis.js:30): Cramer's rule *)

TolExp == 12

SingularMsg == "Matrix is singular or nearly singular"
ShapeMsg == "thetaDeg and phiDeg must be arrays of three numbers"

Throw(msg) == [status |-> "throw", message |-> msg]

(* the 3x3 determinant, expanded along the first row as in the code *)
Det3(M) ==
  Add(Sub(Mul(M[1][1], Sub(Mul(M[2][2], M[3][3]), Mul(M[2][3], M[3][2]))),
          Mul(M[1][2], Sub(Mul(M[2][1], M[3][3]), Mul(M[2][3], M[3][1])))),
      Mul(M[1][3], Sub(Mul(M[2][1], M[3][2]), Mul(M[2][2], M[3][1]))))

(* determinant of A with column col replaced by b *)
detReplace(A, b, col) ==
  Det3([i \in 1..3 |-> [j \in 1..3 |-> IF j = col THEN b[i] ELSE A[i][j]]])

(* solve3x3 with the test of the determinant left out *)
solve3x3_NoSingularCheck(A, b) ==
  [status |-> "ok",
   x |-> << Div(detReplace(A, b, 1), Det3(A)),
            Div(detReplace(A, b, 2), Det3(A)),
            Div(detReplace(A, b, 3), Det3(A)) >>,
   divisions |-> 3]

(* solve3x3 with detA < 1e-12 in place of Math.abs(detA) < 1e-12 *)
solve3x3_NoAbs(A, b) ==
  IF Sign(Det3(A)) < 0 \/ BelowPow10(Det3(A), TolExp)
  THEN [status |-> "throw", message |-> SingularMsg, divisions |-> 0]
  ELSE solve3x3_NoSingularCheck(A, b)

(* Cramer's rule with the first two replaced determinants exchanged *)
Cramer_ColumnsSwapped(A, b, detA) ==
  IF BelowPow10(MathAbs(detA), TolExp)
  THEN [status |-> "throw", message |-> SingularMsg, divisions |-> 0]
  ELSE [status |-> "ok",
        x |-> << Div(detReplace(A, b, 2), detA),
                 Div(detReplace(A, b, 1), detA),
                 Div(detReplace(A, b, 3), detA) >>,
        divisions |-> 3]

(* divisions counts the divisions by detA that were carried out *)
Cramer(A, b, detA) ==
  IF BelowPow10(MathAbs(detA), TolExp)
  THEN [status |-> "throw", message |-> SingularMsg, divisions |-> 0]
  ELSE [status |-> "ok",
        x |-> << Div(detReplace(A, b, 1), detA),
                 Div(detReplace(A, b, 2), detA),
                 Div(detReplace(A, b, 3), detA) >>,
        divisions |-> 3]

solve3x3(A, b) == Cramer(A, b, Det3(A))

----------------------------------------------------------------------------
(* threePositionSynthesis (synthesis.js:69).  An argument is a record      *)
(* [isArray, items]: Array.isArray of the value and its elements (.length  *)
(* is Len(items)).                                                         *)

(* rows [1, cos(phi_i), -cos(theta_i)] of the design equations *)
DesignMatrix(theta, phi) ==
  [i \in 1..3 |-> << One, MathCos(phi[i]), Neg(MathCos(theta[i])) >>]

(* right-hand side cos(phi_i - theta_i) *)
DesignRhs(theta, phi) ==
  [i \in 1..3 |-> MathCos(AngSub(phi[i], theta[i]))]

(* 1 + r2^2 + r4^2 - 2*r2*r4*z1, before the clamp *)
CouplerSquared(r2Scaled, r4Scaled, z1) ==
  Sub(Add(Add(One, Mul(r2Scaled, r2Scaled)), Mul(r4Scaled, r4Scaled)),
      Mul(Mul(Mul(Int2Q(2), r2Scaled), r4Scaled), z1))

(* the test of line 70 with Array.isArray left out *)
BadShape_LengthOnly(thetaDeg, phiDeg) ==
  Len(thetaDeg.items) # 3 \/ Len(phiDeg.items) # 3

(* the test of line 70 *)
BadShape(thetaDeg, phiDeg) ==
  \/ ~thetaDeg.isArray
  \/ Len(thetaDeg.items) # 3
  \/ ~phiDeg.isArray
  \/ Len(phiDeg.items) # 3

(* the lengths with the coupler left unscaled *)
ScaledLengths_R3Unscaled(r2Scaled, r3Scaled, r4Scaled, r1) ==
  [status |-> "ok",
   r1 |-> r1,
   r2 |-> Mul(r2Scaled, r1),
   r3 |-> r3Scaled,
   r4 |-> Mul(r4Scaled, r1)]

(* lines 91-97: the lengths scaled by r1 *)
ScaledLengths(r2Scaled, r3Scaled, r4Scaled, r1) ==
  [status |-> "ok",
   r1 |-> r1,
   r2 |-> Mul(r2Scaled, r1),
   r3 |-> SurdMul(r3Scaled, r1),
   r4 |-> Mul(r4Scaled, r1)]

(* lines 88-89: r3Scaled from r2Scaled, r4Scaled and z1 *)
LinkRatios(z1, r2Scaled, r4Scaled, r1) ==
  ScaledLengths(r2Scaled,
                MathSqrt(MathMax(Zero, CouplerSquared(r2Scaled, r4Scaled, z1))),
                r4Scaled, r1)

(* lines 84-87: the solution of the design equations, or its exception *)
FromSolution(sol, r1) ==
  IF sol.status = "throw" THEN Throw(sol.message)
  ELSE LinkRatios(sol.x[1], Div(One, sol.x[2]), Div(One, sol.x[3]), r1)

(* lines 74-75: thetaDeg.map(deg2rad) *)
MapDeg2rad(a) == [i \in 1..3 |-> deg2rad(a.items[i])]

threePositionSynthesis(thetaDeg, phiDeg, r1) ==
  IF BadShape(thetaDeg, phiDeg)
  THEN Throw(ShapeMsg)
  ELSE FromSolution(solve3x3(DesignMatrix(MapDeg2rad(thetaDeg), MapDeg2rad(phiDeg)),
                             DesignRhs(MapDeg2rad(thetaDeg), MapDeg2rad(phiDeg))),
                    r1)

----------------------------------------------------------------------------
(* Math.hypot: the exact square root in Q(sqrt 3).  With y = (p + q*sqrt 3)/c *)
(* and x = (a + b*sqrt 3)/c, y*y = x means p*p + 3*q*q = a*c and 2*p*q = b*c. *)

RECURSIVE Newton(_, _)
Newton(n, k) == IF k * k <= n THEN k ELSE Newton(n, (k + n \div k) \div 2)

(* the integer square root of n >= 0, rounded down *)
ISqrt(n) == IF n = 0 THEN 0 ELSE Newton(n, IF n > 46340 THEN 46340 ELSE n)

(* the pairs <<p, q>> with ((p + q*sqrt 3)/x.c)^2 = x and p + q*sqrt 3 >= 0 *)
SqrtPairs(s, t, m) ==
  { pq \in { << ISqrt(IAbs(s - 3 * q * q)), q >> : q \in (-m)..m } :
      /\ pq[1] * pq[1] + 3 * pq[2] * pq[2] = s
      /\ 2 * pq[1] * pq[2] = t
      /\ Sign(Q(pq[1], pq[2], 1)) >= 0 }

(* for t = 0 one of p and q is 0, which leaves two pairs to try *)
RationalPairs(s) ==
  { pq \in { << ISqrt(IAbs(s)), 0 >>, << 0, ISqrt(IAbs(s) \div 3) >> } :
      pq[1] * pq[1] + 3 * pq[2] * pq[2] = s }

SqrtDigits(x) ==
  IF x.b = 0 THEN RationalPairs(x.a * x.c)
  ELSE SqrtPairs(x.a * x.c, x.b * x.c, ISqrt(IAbs(x.a * x.c) \div 3))

HasFieldSqrt(x) == IsFinite(x) /\ Sign(x) >= 0 /\ SqrtDigits(x) # {}

FieldSqrt(x) ==
  IF IsNaN(x) \/ Sign(x) < 0 THEN NaN
  ELSE IF IsInf(x) THEN PosInf
  ELSE CHOOSE y \in { Q(pq[1], pq[2], x.c) : pq \in SqrtDigits(x) } : TRUE

MathHypot(dx, dy) == FieldSqrt(Add(Mul(dx, dx), Mul(dy, dy)))

----------------------------------------------------------------------------
(* normalizeAngle (synthesis.js:162) *)

RECURSIVE RaiseAngle(_)
RaiseAngle(a) == IF a <= -PI THEN RaiseAngle(a + 2 * PI) ELSE a

RECURSIVE LowerAngle(_)
LowerAngle(a) == IF a > PI THEN LowerAngle(a - 2 * PI) ELSE a

(* normalizeAngle without the two loops *)
normalizeAngle_NoWrap(angle) == angle

normalizeAngle(angle) ==
  IF AngIsNum(angle) THEN Ang(LowerAngle(RaiseAngle(angle.v))) ELSE angle

(* Math.abs and < on angles *)
AngAbs(x) == IF AngIsNum(x) THEN Ang(IAbs(x.v)) ELSE AngNaN
AngLt(x, y) == AngIsNum(x) /\ AngIsNum(y) /\ x.v < y.v

----------------------------------------------------------------------------
(* solveFourBarPhi (synthesis.js:121).  The mode is a string; NoMode is    *)
(* an omitted argument.                                                    *)

NoMode == "undefined"

(* the vector O4 -> A and its length d *)
CrankDx(r1, r2, theta) == Sub(Mul(r2, MathCos(theta)), r1)
CrankDy(r1, r2, theta) == Mul(r2, MathSin(theta))
CrankD(r1, r2, theta) == MathHypot(CrankDx(r1, r2, theta), CrankDy(r1, r2, theta))

Unreachable(d, r3, r4) == Gt(d, Add(r3, r4)) \/ Lt(d, MathAbs(Sub(r3, r4)))

(* (d^2 + r4^2 - r3^2) / (2 d r4), before the clamp *)
CosGammaRaw(d, r3, r4) ==
  Div(Sub(Add(Mul(d, d), Mul(r4, r4)), Mul(r3, r3)), Mul(Mul(Int2Q(2), d), r4))

Clamp(x) == MathMin(One, MathMax(Neg(One), x))

(* the selection with continuity consulted before the mode *)
selectBranch_PrevFirst(phi1, phi2, prevPhi, mode) ==
  IF AngIsNum(prevPhi)
  THEN (IF AngLt(AngAbs(normalizeAngle(AngSub(phi1, prevPhi))),
                 AngAbs(normalizeAngle(AngSub(phi2, prevPhi))))
        THEN phi1 ELSE phi2)
  ELSE IF mode = "closed" \/ mode = "crossed" THEN phi2 ELSE phi1

(* the selection with diff1 <= diff2 in place of diff1 < diff2 *)
selectBranch_TieOpen(phi1, phi2, prevPhi, mode) ==
  IF mode = "open" THEN phi1
  ELSE IF mode = "closed" \/ mode = "crossed" THEN phi2
  ELSE IF prevPhi = Undefined \/ prevPhi = AngNaN THEN phi1
  ELSE IF AngLt(AngAbs(normalizeAngle(AngSub(phi2, prevPhi))),
                AngAbs(normalizeAngle(AngSub(phi1, prevPhi))))
       THEN phi2
       ELSE phi1

(* lines 144-155: the branch by mode, else by continuity with prevPhi *)
selectBranch(phi1, phi2, prevPhi, mode) ==
  IF mode = "open" THEN phi1
  ELSE IF mode = "closed" \/ mode = "crossed" THEN phi2
  ELSE IF prevPhi = Undefined \/ prevPhi = AngNaN THEN phi1
  ELSE IF AngLt(AngAbs(normalizeAngle(AngSub(phi1, prevPhi))),
                AngAbs(normalizeAngle(AngSub(phi2, prevPhi))))
       THEN phi1
       ELSE phi2

(* lines 142-155: the two candidates and the choice between them *)
Candidates(delta1, gamma, prevPhi, mode) ==
  selectBranch(AngAdd(delta1, gamma), AngSub(delta1, gamma), prevPhi, mode)

(* lines 130-155, with dx, dy and d at hand *)
PhiFrom(dx, dy, d, r3, r4, prevPhi, mode) ==
  IF Unreachable(d, r3, r4) THEN AngNaN
  ELSE Candidates(MathAtan2(dy, dx), MathAcos(Clamp(CosGammaRaw(d, r3, r4))),
                  prevPhi, mode)

(* solveFourBarPhi with its result normalized into (-pi, pi] *)
solveFourBarPhi_Normalized(r1, r2, r3, r4, theta, prevPhi, mode) ==
  normalizeAngle(PhiFrom(CrankDx(r1, r2, theta), CrankDy(r1, r2, theta),
                         CrankD(r1, r2, theta), r3, r4, prevPhi, mode))

solveFourBarPhi(r1, r2, r3, r4, theta, prevPhi, mode) ==
  PhiFrom(CrankDx(r1, r2, theta), CrankDy(r1, r2, theta), CrankD(r1, r2, theta),
          r3, r4, prevPhi, mode)

(* lines 182-190, with phi at hand *)
Joints(r1, r2, r4, theta, phi) ==
  [O2 |-> [x |-> Zero, y |-> Zero],
   A |-> [x |-> Mul(r2, MathCos(theta)), y |-> Mul(r2, MathSin(theta))],
   B |-> [x |-> Add(r1, Mul(r4, MathCos(phi))),
          y |-> Add(Zero, Mul(r4, MathSin(phi)))],
   O4 |-> [x |-> r1, y |-> Zero],
   phi |-> phi]

(* computeFourBarPositions that does not pass the mode on *)
computeFourBarPositions_IgnoresMode(r1, r2, r3, r4, theta, prevPhi, mode) ==
  Joints(r1, r2, r4, theta, solveFourBarPhi(r1, r2, r3, r4, theta, prevPhi, NoMode))

(* computeFourBarPositions with B laid off from O2 instead of O4 *)
computeFourBarPositions_BFromO2(r1, r2, r3, r4, theta, prevPhi, mode) ==
  [Joints(Zero, r2, r4, theta, solveFourBarPhi(r1, r2, r3, r4, theta, prevPhi, mode))
     EXCEPT !.O4 = [x |-> r1, y |-> Zero]]

(* computeFourBarPositions (synthesis.js:181) *)
computeFourBarPositions(r1, r2, r3, r4, theta, prevPhi, mode) ==
  Joints(r1, r2, r4, theta, solveFourBarPhi(r1, r2, r3, r4, theta, prevPhi, mode))

----------------------------------------------------------------------------
(* State: one call of threePositionSynthesis (synIn, synOut) and one call  *)
(* of the position analysis (posIn, posOut).                               *)

VARIABLES synIn, synOut, posIn, posOut, ui, dom, browser, hist,
          linSys, linOut, norm

vars == << synIn, synOut, posIn, posOut, ui, dom, browser, hist,
           linSys, linOut, norm >>

NotCalled == [status |-> "none"]

MaxAngleIdx == 3
MaxGround == 2
MaxLen == 2
MaxPrevPhi == 7

(* input angles in degrees: multiples of 30 *)
Degrees == { 30 * k : k \in 0..MaxAngleIdx }

Array(items) == [isArray |-> TRUE, items |-> items]
NonArray(items) == [isArray |-> FALSE, items |-> items]

ThreeAngles == { Array(<< a, b, c >>) : a \in Degrees, b \in Degrees, c \in Degrees }

(* arrays of another length, and values that are no array (a string of    *)
(* length three, a number)                                                 *)
OtherShapes ==
  { Array(<< >>), Array(<< 0, 30 >>), Array(<< 0, 30, 60, 90 >>),
    NonArray(<< 0, 30, 60 >>), NonArray(<< >>) }

GroundLengths == { Int2Q(n) : n \in 1..MaxGround }

(* the right-hand side b is the column cos(phi) or the column cos(theta)  *)
(* of the design equations                                                 *)
RhsIsColumn(theta, phi) ==
  \/ \A i \in 1..3 : DesignRhs(theta, phi)[i] = MathCos(phi[i])
  \/ \A i \in 1..3 : DesignRhs(theta, phi)[i] = MathCos(theta[i])

(* Where z2 or z3 is zero the code's quotient 1 / z is infinite only when  *)
(* the rounded determinant is zero too.  It is when b is a column of the   *)
(* matrix (the replaced determinant then has two equal columns and its     *)
(* terms cancel one by one); such inputs are kept.  Other inputs with a    *)
(* zero z2 or z3 give a rounding residue instead and are left out.         *)
Cancels(A, b, theta, phi) ==
  \/ RhsIsColumn(theta, phi)
  \/ Sign(detReplace(A, b, 2)) # 0 /\ Sign(detReplace(A, b, 3)) # 0
  \/ solve3x3(A, b).status = "throw"

ExactQuotients(thetaDeg, phiDeg) ==
  Cancels(DesignMatrix(MapDeg2rad(thetaDeg), MapDeg2rad(phiDeg)),
          DesignRhs(MapDeg2rad(thetaDeg), MapDeg2rad(phiDeg)),
          MapDeg2rad(thetaDeg), MapDeg2rad(phiDeg))

(* three-angle inputs *)
SynAngles ==
  { p \in [thetaDeg : ThreeAngles, phiDeg : ThreeAngles] :
      ExactQuotients(p.thetaDeg, p.phiDeg) }

(* inputs of another shape *)
SynShapes ==
  [thetaDeg : OtherShapes, phiDeg : OtherShapes \cup { Array(<< 0, 30, 90 >>) },
   r1 : { One }]
    \cup [thetaDeg : { Array(<< 0, 30, 60 >>) }, phiDeg : OtherShapes, r1 : { One }]

SynIdle == [thetaDeg |-> Array(<< >>), phiDeg |-> Array(<< >>), r1 |-> One]

(* link lengths 1..MaxLen and sqrt 3; input angles on the whole lattice *)
Lengths == { Int2Q(n) : n \in 1..MaxLen } \cup { Q(0, 1, 1) }
Thetas == { Ang(v) : v \in 0..(2 * PI - 1) }
PrevPhis == { Undefined, AngNaN } \cup { Ang(v) : v \in (-MaxPrevPhi)..MaxPrevPhi }
Modes == { "open", "closed", "crossed", NoMode }

OnLatticeDir(dy, dx) ==
  \/ Sign(dx) = 0 /\ Sign(dy) = 0
  \/ \E v \in (1 - PI)..PI :
       /\ Mul(dx, MathSin(Ang(v))) = Mul(dy, MathCos(Ang(v)))
       /\ Sign(Add(Mul(dx, MathCos(Ang(v))), Mul(dy, MathSin(Ang(v))))) > 0

OnLatticeCos(c) == IsNaN(c) \/ \E v \in 0..PI : MathCos(Ang(v)) = Unsigned(c)

(* d equals r3 + r4 or |r3 - r4|: the triangle is flat *)
Tangent(d, r3, r4) == d = Add(r3, r4) \/ d = MathAbs(Sub(r3, r4))

(* the inputs on which the distance d is a number of Q(sqrt 3), the        *)
(* direction O4 -> A is an angle of the lattice and, where the linkage can *)
(* be assembled, so is the angle gamma.  With a flat triangle the test of  *)
(* line 130 compares equal quantities and is decided by the rounding of d; *)
(* such inputs are kept for theta = 0 and theta = pi, where d is |r2 - r1| *)
(* or r1 + r2 without rounding.                                            *)
OnLattice(dx, dy, d, r3, r4, theta) ==
  /\ OnLatticeDir(dy, dx)
  /\ \/ Unreachable(d, r3, r4)
     \/ OnLatticeCos(Clamp(CosGammaRaw(d, r3, r4)))
  /\ Tangent(d, r3, r4) => theta \in { Ang(0), Ang(PI) }

HasDistance(dx, dy) == HasFieldSqrt(Add(Mul(dx, dx), Mul(dy, dy)))

Representable(in) ==
  /\ HasDistance(CrankDx(in.r1, in.r2, in.theta), CrankDy(in.r1, in.r2, in.theta))
  /\ OnLattice(CrankDx(in.r1, in.r2, in.theta), CrankDy(in.r1, in.r2, in.theta),
               CrankD(in.r1, in.r2, in.theta), in.r3, in.r4, in.theta)

PosInputs ==
  { in \in [r1 : Lengths, r2 : Lengths, r3 : Lengths, r4 : Lengths, theta : Thetas] :
      Representable(in) }

PosIdle == [r1 |-> One, r2 |-> One, r3 |-> One, r4 |-> One, theta |-> Ang(0)]

(* linSys holds the arrays A and b a caller passes to solve3x3, linOut the *)
(* result of the call next to the arrays as they were passed.  norm holds  *)
(* the argument of a call of normalizeAngle, its local a and the statement *)
(* it is at.                                                               *)
NoSystem == [A |-> << >>, b |-> << >>]
NormIdle == [angle |-> Ang(0), a |-> Ang(0), pc |-> "idle"]

CallsIdle ==
  /\ linSys = NoSystem
  /\ linOut = NotCalled
  /\ norm = NormIdle

----------------------------------------------------------------------------
(* The page of setupUI (synthesis.js:209).  ui holds the closure's state   *)
(* variables (lines 236-242), dom the elements the handlers read and       *)
(* write, browser the animation-frame requests that are pending and the    *)
(* last handle handed out.  hist records, for the properties, the last     *)
(* handler that ran (where a property needs it), the last event since the  *)
(* latest position solve that starts a new sweep, and whether that latest  *)
(* solve was given a prevPhi.                                              *)

MaxFrames == 2

Null == 0
SliderStep == 2
SliderHalf == 500
SliderMax == 1000

(* slider positions, in thousandths, that the user seeks to: the middle,  *)
(* one step below the end, and the end                                     *)
SeekTargets == { SliderHalf, SliderMax - SliderStep, SliderMax }

(* contents of the input fields: ground length (1 or the largest) and     *)
(* angles in degrees; the second set of output angles makes the design     *)
(* equations singular                                                      *)
FieldChoices ==
  [r1Input : { 1, MaxGround },
   thetaInputs : { << 0, 30, 60 >> },
   phiInputs : { << 0, 30, 90 >>, << 0, 0, 0 >> }]

(* the declarations with assemblyMode left without a value *)
Declared_NoMode ==
  [r1 |-> Undefined, r2 |-> Undefined, r3 |-> Undefined, r4 |-> Undefined,
   thetaVals |-> << >>, phiVals |-> << >>,
   prevPhi |-> Undefined,
   assemblyMode |-> NoMode,
   playing |-> FALSE,
   animationId |-> Null]

(* lines 236-242: let r1, r2, r3, r4; thetaVals = []; ... *)
Declared ==
  [r1 |-> Undefined, r2 |-> Undefined, r3 |-> Undefined, r4 |-> Undefined,
   thetaVals |-> << >>, phiVals |-> << >>,
   prevPhi |-> Undefined,
   assemblyMode |-> "open",
   playing |-> FALSE,
   animationId |-> Null]

(* the elements as the page loads them: controls disabled until the first *)
(* synthesis enables them (lines 519-520), the open radio checked          *)
Loaded(fields) ==
  [r1Input |-> fields.r1Input,
   thetaInputs |-> fields.thetaInputs,
   phiInputs |-> fields.phiInputs,
   slider |-> 0,
   sliderDisabled |-> TRUE,
   playPauseDisabled |-> TRUE,
   playPauseText |-> "Play",
   modeChecked |-> "open"]

NoCall == [made |-> FALSE, absent |-> TRUE, after |-> "none"]

Fresh == [last |-> "load", reset |-> "none", call |-> NoCall]

NoFrames == [frames |-> {}, handle |-> 0]

PageIdle ==
  /\ ui = Declared
  /\ dom = Loaded([r1Input |-> 1, thetaInputs |-> << 0, 0, 0 >>,
                   phiInputs |-> << 0, 0, 0 >>])
  /\ browser = NoFrames
  /\ hist = Fresh

PageClosed == PageIdle /\ CallsIdle

----------------------------------------------------------------------------
(* Synthesis: a call of threePositionSynthesis on synIn *)

InitSynth ==
  /\ \/ \E p \in SynAngles, g \in GroundLengths :
          synIn = [thetaDeg |-> p.thetaDeg, phiDeg |-> p.phiDeg, r1 |-> g]
     \/ synIn \in SynShapes
  /\ synOut = NotCalled
  /\ posIn = PosIdle
  /\ posOut = NotCalled
  /\ PageClosed

Synthesize ==
  /\ synOut = NotCalled
  /\ synOut' = threePositionSynthesis(synIn.thetaDeg, synIn.phiDeg, synIn.r1)
  /\ UNCHANGED << synIn, posIn, posOut, ui, dom, browser, hist, linSys, linOut, norm >>

NextSynth == Synthesize

SpecSynth == InitSynth /\ [][NextSynth]_vars

(* Position analysis: a call of solveFourBarPhi and of                     *)
(* computeFourBarPositions on posIn with some prevPhi and mode             *)

InitPhi ==
  /\ synIn = SynIdle
  /\ synOut = NotCalled
  /\ posIn \in PosInputs
  /\ posOut = NotCalled
  /\ PageClosed

(* the two candidates are distinct and equally far from prevPhi: the test *)
(* diff1 < diff2 of line 155 is then decided by rounding                   *)
EquallyFar(phi1, phi2, prevPhi) ==
  /\ AngIsNum(phi1) /\ AngIsNum(phi2) /\ AngIsNum(prevPhi)
  /\ phi1 # phi2
  /\ AngAbs(normalizeAngle(AngSub(phi1, prevPhi)))
       = AngAbs(normalizeAngle(AngSub(phi2, prevPhi)))

Equidistant(in, prevPhi) ==
  EquallyFar(solveFourBarPhi(in.r1, in.r2, in.r3, in.r4, in.theta, Undefined, "open"),
             solveFourBarPhi(in.r1, in.r2, in.r3, in.r4, in.theta, Undefined, "closed"),
             prevPhi)

Position ==
  /\ posOut = NotCalled
  /\ \E prevPhi \in PrevPhis, mode \in Modes :
       /\ mode = NoMode => ~Equidistant(posIn, prevPhi)
       /\ posOut' =
         [status |-> "returned",
          prevPhi |-> prevPhi,
          mode |-> mode,
          phi |-> solveFourBarPhi(posIn.r1, posIn.r2, posIn.r3, posIn.r4,
                                  posIn.theta, prevPhi, mode),
          pos |-> computeFourBarPositions(posIn.r1, posIn.r2, posIn.r3, posIn.r4,
                                          posIn.theta, prevPhi, mode)]
  /\ UNCHANGED << synIn, synOut, posIn, ui, dom, browser, hist, linSys, linOut, norm >>

NextPhi == Position

SpecPhi == InitPhi /\ [][NextPhi]_vars

(* The same theta processed twice in direct succession without a mode:    *)
(* the second call of solveFourBarPhi is given the phi the first returned, *)
(* as a sweep does that stores each result in its continuity cell.  The   *)
(* second call's prevPhi is one of the two candidates; they are equally    *)
(* far from it only where gamma is 0 or pi, and there the differences are  *)
(* computed without rounding.                                              *)
Reprocess ==
  /\ posOut.status = "returned"
  /\ posOut.mode = NoMode
  /\ posOut' =
       [status |-> "again",
        prevPhi |-> posOut.phi,
        mode |-> NoMode,
        phi |-> solveFourBarPhi(posIn.r1, posIn.r2, posIn.r3, posIn.r4,
                                posIn.theta, posOut.phi, NoMode),
        pos |-> computeFourBarPositions(posIn.r1, posIn.r2, posIn.r3, posIn.r4,
                                        posIn.theta, posOut.phi, NoMode),
        first |-> posOut.phi]
  /\ UNCHANGED << synIn, synOut, posIn, ui, dom, browser, hist, linSys, linOut, norm >>

NextTwice == Position \/ Reprocess

SpecTwice == InitPhi /\ [][NextTwice]_vars

----------------------------------------------------------------------------
(* The handlers of setupUI, as functions of the page's state               *)
(* s = [ui, dom, browser, hist].                                           *)

PageState == [ui |-> ui, dom |-> dom, browser |-> browser, hist |-> hist]

(* thetaFromSlider (synthesis.js:368), for the slider position t in        *)
(* thousandths: the angle in units of pi / (PI * SliderHalf)               *)
thetaFromSlider(thetaVals, t) ==
  IF t <= SliderHalf
  THEN SliderHalf * thetaVals[1].v + t * (thetaVals[2].v - thetaVals[1].v)
  ELSE SliderHalf * thetaVals[2].v + (t - SliderHalf) * (thetaVals[3].v - thetaVals[2].v)

(* pos.phi of line 387.  assemblyMode is 'open' or 'closed' on every call  *)
(* the page makes, so the value is decided by the lengths, theta and the   *)
(* mode and not by the prevPhi argument; it is kept as that theta and      *)
(* mode.  With a length still unset the value is NaN.                      *)
PhiAt(theta, mode) == [k |-> "phi", theta |-> theta, mode |-> mode]

Resolved(s) ==
  IF s.ui.r2 = Undefined \/ s.ui.r3 = Undefined \/ s.ui.r4 = Undefined
  THEN AngNaN
  ELSE PhiAt(thetaFromSlider(s.ui.thetaVals, s.dom.slider), s.ui.assemblyMode)

(* lines 387-388: the position solve with the cell prevPhi, and its result *)
(* stored back into the cell                                               *)
Solved(s) ==
  [s EXCEPT !.ui.prevPhi = Resolved(s),
            !.hist.call = [made |-> TRUE, absent |-> s.ui.prevPhi = Undefined,
                           after |-> s.hist.reset],
            !.hist.reset = "none"]

(* window.requestAnimationFrame(animate), its handle stored in animationId *)
requestAnimationFrame(s) ==
  [s EXCEPT !.browser.handle = s.browser.handle + 1,
            !.browser.frames = s.browser.frames \cup { s.browser.handle + 1 },
            !.ui.animationId = s.browser.handle + 1]

(* window.cancelAnimationFrame(id) *)
cancelAnimationFrame(s, id) ==
  [s EXCEPT !.browser.frames = s.browser.frames \ { id }]

(* the advance with next >= 1 in place of next > 1 *)
NextSlider_WrapAtOne(t) == IF t + SliderStep >= SliderMax THEN 0 ELSE t + SliderStep

(* lines 395-397: next = tVal + 0.002, back to 0 beyond 1 *)
NextSlider(t) == IF t + SliderStep > SliderMax THEN 0 ELSE t + SliderStep

(* animate (synthesis.js:384) *)
animate(s) ==
  IF s.ui.playing
  THEN requestAnimationFrame([Solved(s) EXCEPT !.dom.slider = NextSlider(s.dom.slider)])
  ELSE Solved(s)

(* lines 507-509: the assignments ahead of the try block *)
Parsed(s) ==
  [s EXCEPT !.ui.r1 = Int2Q(s.dom.r1Input),
            !.ui.thetaVals = [i \in 1..3 |-> deg2rad(s.dom.thetaInputs[i])],
            !.ui.phiVals = [i \in 1..3 |-> deg2rad(s.dom.phiInputs[i])]]

(* the try block without the assignment playing = false *)
Accepted_StillPlaying(s, result) ==
  animate([s EXCEPT !.ui.r2 = result.r2,
                    !.ui.r3 = result.r3,
                    !.ui.r4 = result.r4,
                    !.dom.playPauseDisabled = FALSE,
                    !.dom.sliderDisabled = FALSE,
                    !.dom.slider = 0,
                    !.ui.prevPhi = Undefined,
                    !.dom.playPauseText = "Play",
                    !.hist.reset = "synthesis",
                    !.hist.last = "synthesis"])

(* lines 516-529: the try block after threePositionSynthesis returned *)
Accepted(s, result) ==
  animate([s EXCEPT !.ui.r2 = result.r2,
                    !.ui.r3 = result.r3,
                    !.ui.r4 = result.r4,
                    !.dom.playPauseDisabled = FALSE,
                    !.dom.sliderDisabled = FALSE,
                    !.dom.slider = 0,
                    !.ui.playing = FALSE,
                    !.ui.prevPhi = Undefined,
                    !.dom.playPauseText = "Play",
                    !.hist.reset = "synthesis",
                    !.hist.last = "synthesis"])

(* lines 532-535: the catch block *)
Rejected(s) == [s EXCEPT !.hist.last = "synthesis error"]

Outcome(s, result) ==
  IF result.status = "throw" THEN Rejected(s) ELSE Accepted(s, result)

(* performSynthesis (synthesis.js:506) *)
performSynthesis(s) ==
  Outcome(Parsed(s),
          threePositionSynthesis(Array(s.dom.thetaInputs), Array(s.dom.phiInputs),
                                 Int2Q(s.dom.r1Input)))

(* the click handler of playPauseBtn (synthesis.js:539) *)
playPauseClick(s) ==
  IF s.dom.playPauseDisabled THEN s
  ELSE IF ~s.ui.playing
       THEN requestAnimationFrame([s EXCEPT !.ui.playing = TRUE,
                                            !.dom.playPauseText = "Pause",
                                            !.ui.prevPhi = Undefined])
       ELSE cancelAnimationFrame([s EXCEPT !.ui.playing = FALSE,
                                           !.dom.playPauseText = "Play"],
                                 s.ui.animationId)

(* the input handler of the slider (synthesis.js:551) *)
sliderInput(s) ==
  IF ~s.ui.playing THEN animate([s EXCEPT !.ui.prevPhi = Undefined]) ELSE s

(* the change handlers without the reset of prevPhi *)
modeChange_KeepsPrevPhi(s, mode) ==
  IF s.dom.modeChecked # mode THEN s
  ELSE IF ~s.ui.playing
       THEN animate([s EXCEPT !.ui.assemblyMode = mode])
       ELSE [s EXCEPT !.ui.assemblyMode = mode]

(* the change handlers of the two radios (synthesis.js:558 and 567) *)
modeChange(s, mode) ==
  IF s.dom.modeChecked # mode THEN s
  ELSE IF ~s.ui.playing
       THEN animate([s EXCEPT !.ui.assemblyMode = mode, !.ui.prevPhi = Undefined])
       ELSE [s EXCEPT !.ui.assemblyMode = mode, !.ui.prevPhi = Undefined]

(* r2 && r3 && r4 of lines 594 and 619 *)
TruthyNum(x) == x # Undefined /\ ~IsNaN(x) /\ Sign(x) # 0
TruthySurd(x) == x # Undefined /\ ~SurdIsNaN(x) /\ x.sgn # 0

(* the mousemove handler while dragging and the wheel handler              *)
(* (synthesis.js:585 and 609); the view's offsets and scale are not kept   *)
redraw(s) ==
  IF ~s.ui.playing /\ TruthyNum(s.ui.r2) /\ TruthySurd(s.ui.r3) /\ TruthyNum(s.ui.r4)
  THEN Solved(s)
  ELSE s

(* the state after setupUI, whose last statement is performSynthesis() *)
setupUI(fields) ==
  performSynthesis([ui |-> Declared, dom |-> Loaded(fields),
                    browser |-> NoFrames, hist |-> Fresh])

----------------------------------------------------------------------------
(* The page: the user's events and the browser's animation frames          *)

Becomes(s) ==
  /\ s.browser.handle <= MaxFrames
  /\ ui' = s.ui
  /\ dom' = s.dom
  /\ browser' = s.browser
  /\ hist' = s.hist

Noted(s, event) == [s EXCEPT !.hist.last = event]

Marked(s, event) == [s EXCEPT !.hist.last = "event", !.hist.reset = event]

InitUI ==
  /\ synIn = SynIdle
  /\ synOut = NotCalled
  /\ posIn = PosIdle
  /\ posOut = NotCalled
  /\ CallsIdle
  /\ \E fields \in FieldChoices :
       /\ ui = setupUI(fields).ui
       /\ dom = setupUI(fields).dom
       /\ browser = setupUI(fields).browser
       /\ hist = setupUI(fields).hist

(* the user types into the input fields *)
EditFields ==
  /\ \E fields \in FieldChoices :
       dom' = [dom EXCEPT !.r1Input = fields.r1Input,
                          !.thetaInputs = fields.thetaInputs,
                          !.phiInputs = fields.phiInputs]
  /\ hist' = [hist EXCEPT !.last = "event"]
  /\ UNCHANGED << synIn, synOut, posIn, posOut, ui, browser, linSys, linOut, norm >>

ClickSynthesize ==
  /\ Becomes(performSynthesis(Noted(PageState, "event")))
  /\ UNCHANGED << synIn, synOut, posIn, posOut, linSys, linOut, norm >>

ClickPlayPause ==
  /\ ~dom.playPauseDisabled
  /\ Becomes(playPauseClick(Noted(PageState, "event")))
  /\ UNCHANGED << synIn, synOut, posIn, posOut, linSys, linOut, norm >>

(* the user moves the slider to t; the browser then raises 'input' *)
SeekSlider ==
  /\ ~dom.sliderDisabled
  /\ \E t \in SeekTargets :
       /\ t # dom.slider
       /\ Becomes(sliderInput([Marked(PageState, "seek") EXCEPT !.dom.slider = t]))
  /\ UNCHANGED << synIn, synOut, posIn, posOut, linSys, linOut, norm >>

(* the user checks the other radio; the browser then raises 'change' on it *)
SwitchMode ==
  /\ \E mode \in { "open", "closed" } :
       /\ mode # dom.modeChecked
       /\ Becomes(modeChange([Marked(PageState, "mode") EXCEPT !.dom.modeChecked = mode],
                             mode))
  /\ UNCHANGED << synIn, synOut, posIn, posOut, linSys, linOut, norm >>

PanOrZoom ==
  /\ Becomes(redraw(Noted(PageState, "event")))
  /\ UNCHANGED << synIn, synOut, posIn, posOut, linSys, linOut, norm >>

(* the browser runs the oldest pending animation-frame request *)
Oldest(frames) == CHOOSE id \in frames : \A other \in frames : id <= other

Taken(s, id) == [s EXCEPT !.browser.frames = s.browser.frames \ { id }]

FireFrame ==
  /\ browser.frames # {}
  /\ Becomes(animate(Taken(Noted(PageState, "event"), Oldest(browser.frames))))
  /\ UNCHANGED << synIn, synOut, posIn, posOut, linSys, linOut, norm >>

NextUI ==
  \/ EditFields
  \/ ClickSynthesize
  \/ ClickPlayPause
  \/ SeekSlider
  \/ SwitchMode
  \/ PanOrZoom
  \/ FireFrame

SpecUI == InitUI /\ [][NextUI]_vars

----------------------------------------------------------------------------
(* A call of solve3x3 on the arrays of linSys *)

(* the systems threePositionSynthesis builds (lines 77-82) for angles that *)
(* are multiples of 30 degrees                                             *)
Systems ==
  { [A |-> DesignMatrix(MapDeg2rad(t), MapDeg2rad(p)),
     b |-> DesignRhs(MapDeg2rad(t), MapDeg2rad(p))] :
      t \in ThreeAngles, p \in ThreeAngles }

InitSolve ==
  /\ synIn = SynIdle
  /\ synOut = NotCalled
  /\ posIn = PosIdle
  /\ posOut = NotCalled
  /\ PageIdle
  /\ linSys \in Systems
  /\ linOut = NotCalled
  /\ norm = NormIdle

(* solve3x3 reads A and b; detReplace works on a copy of the rows          *)
(* (lines 41-45)                                                           *)
Solve ==
  /\ linOut = NotCalled
  /\ linOut' = [status |-> "called",
                result |-> solve3x3(linSys.A, linSys.b),
                given |-> linSys]
  /\ linSys' = linSys
  /\ UNCHANGED << synIn, synOut, posIn, posOut, ui, dom, browser, hist, norm >>

NextSolve == Solve

SpecSolve == InitSolve /\ [][NextSolve]_vars

----------------------------------------------------------------------------
(* A call of normalizeAngle (synthesis.js:162), statement by statement.    *)
(* Next to the angles of the lattice the argument may be a finite number   *)
(* so large that adding or subtracting 2 pi rounds back to the number      *)
(* itself (above 2^56 the doubles are 16 apart): Huge(1) and Huge(-1).     *)

MaxNormIdx == 30

Huge(sgn) == [k |-> "huge", v |-> sgn]

(* 5 * Math.PI is not a double: (30 * Math.PI) / 6 and 30 * (Math.PI / 6)  *)
(* are rounded toward zero, two passes of a loop leave a at                *)
(* 3.1415926535897913 in magnitude, and the comparison with Math.PI that   *)
(* follows is decided by that rounding.  The odd multiples of pi from      *)
(* 5 pi on are left out of the arguments; pi and 3 pi are doubles that the *)
(* loops bring exactly onto Math.PI.                                       *)
OffThePiLattice(v) == v % (2 * PI) = PI /\ IAbs(v) >= 5 * PI

NormArgs ==
  { Ang(v) : v \in { w \in (-MaxNormIdx)..MaxNormIdx : ~OffThePiLattice(w) } }
    \cup { Huge(1), Huge(-1) }

(* a <= -Math.PI and a > Math.PI *)
AtMostMinusPi(a) == IF a.k = "huge" THEN a.v < 0 ELSE a.v <= -PI
AbovePi(a) == IF a.k = "huge" THEN a.v > 0 ELSE a.v > PI

(* a + n, rounded *)
Shifted(a, n) == IF a.k = "huge" THEN a ELSE Ang(a.v + n)

(* line 163: let a = angle *)
InitNorm ==
  /\ synIn = SynIdle
  /\ synOut = NotCalled
  /\ posIn = PosIdle
  /\ posOut = NotCalled
  /\ PageIdle
  /\ linSys = NoSystem
  /\ linOut = NotCalled
  /\ \E angle \in NormArgs : norm = [angle |-> angle, a |-> angle, pc |-> "raise"]

(* line 164: while (a <= -Math.PI) a += 2 * Math.PI *)
RaiseStep ==
  /\ norm.pc = "raise"
  /\ norm' = IF AtMostMinusPi(norm.a)
             THEN [norm EXCEPT !.a = Shifted(norm.a, 2 * PI)]
             ELSE [norm EXCEPT !.pc = "lower"]
  /\ UNCHANGED << synIn, synOut, posIn, posOut, ui, dom, browser, hist, linSys, linOut >>

(* line 165: while (a > Math.PI) a -= 2 * Math.PI; line 166: return a *)
LowerStep ==
  /\ norm.pc = "lower"
  /\ norm' = IF AbovePi(norm.a)
             THEN [norm EXCEPT !.a = Shifted(norm.a, -(2 * PI))]
             ELSE [norm EXCEPT !.pc = "done"]
  /\ UNCHANGED << synIn, synOut, posIn, posOut, ui, dom, browser, hist, linSys, linOut >>

NextNorm == RaiseStep \/ LowerStep

SpecNorm == InitNorm /\ [][NextNorm]_vars

----------------------------------------------------------------------------
(* interpolateOutputAngle (synthesis_core.js:174, 4bar_synthesis.js:477):  *)
(* the output angle in degrees for an input angle in degrees, from the     *)
(* intersection of the circle of radius r4 about B with the circle of      *)
(* radius r3 about C.  An angle in degrees is a record [k, v] with         *)
(* k = "deg" and v an integer, or NaN.                                     *)

InDegrees(n) == [k |-> "deg", v |-> n]

(* theta4 * 180 / Math.PI *)
ToDegrees(x) == IF AngIsNum(x) THEN InDegrees((x.v * 180) \div PI) ELSE AngNaN

(* the ground pivots A = (-r1/2, 0) and B = (r1/2, 0), and the joint C *)
PivotA(r1) == [x |-> Div(Neg(r1), Int2Q(2)), y |-> Zero]
PivotB(r1) == [x |-> Div(r1, Int2Q(2)), y |-> Zero]
JointC(r1, r2, theta2) ==
  [x |-> Add(PivotA(r1).x, Mul(r2, MathCos(theta2))),
   y |-> Add(PivotA(r1).y, Mul(r2, MathSin(theta2)))]

(* a = (r4*r4 - r3*r3 + d*d) / (2*d) and h = sqrt(max(0, r4*r4 - a*a)) *)
FootDistance(d, r3, r4) ==
  Div(Add(Sub(Mul(r4, r4), Mul(r3, r3)), Mul(d, d)), Mul(Int2Q(2), d))
HalfChord(a, r4) == FieldSqrt(MathMax(Zero, Sub(Mul(r4, r4), Mul(a, a))))

(* the other intersection: (xm - h*dy/d, ym + h*dx/d) *)
FirstIntersection_Second(B, dx, dy, d, a, h) ==
  [x |-> Sub(Add(B.x, Div(Mul(a, dx), d)), Div(Mul(h, dy), d)),
   y |-> Add(Add(B.y, Div(Mul(a, dy), d)), Div(Mul(h, dx), d))]

(* (xs1, ys1) = (xm + h*dy/d, ym - h*dx/d) with (xm, ym) = B + a*(dx, dy)/d *)
FirstIntersection(B, dx, dy, d, a, h) ==
  [x |-> Add(Add(B.x, Div(Mul(a, dx), d)), Div(Mul(h, dy), d)),
   y |-> Sub(Add(B.y, Div(Mul(a, dy), d)), Div(Mul(h, dx), d))]

(* the joint D the function settles on, for dx = Cx - Bx, dy = Cy - By *)
JointDFrom(B, dx, dy, d, r3, r4) ==
  FirstIntersection(B, dx, dy, d, FootDistance(d, r3, r4),
                    HalfChord(FootDistance(d, r3, r4), r4))

JointDAt(B, C, r3, r4) ==
  JointDFrom(B, Sub(C.x, B.x), Sub(C.y, B.y),
             FieldSqrt(Add(Mul(Sub(C.x, B.x), Sub(C.x, B.x)),
                           Mul(Sub(C.y, B.y), Sub(C.y, B.y)))),
             r3, r4)

(* no intersection: the function returns 0 *)
NoIntersection(B, C, r3, r4) ==
  Unreachable(FieldSqrt(Add(Mul(Sub(C.x, B.x), Sub(C.x, B.x)),
                            Mul(Sub(C.y, B.y), Sub(C.y, B.y)))),
              r3, r4)

OutputAngleAt(B, C, r3, r4) ==
  IF NoIntersection(B, C, r3, r4) THEN InDegrees(0)
  ELSE ToDegrees(MathAtan2(Sub(JointDAt(B, C, r3, r4).y, B.y),
                           Sub(JointDAt(B, C, r3, r4).x, B.x)))

interpolateOutputAngle(inputAngle, solution, groundLength) ==
  OutputAngleAt(PivotB(groundLength),
                JointC(groundLength, solution.inputLen, deg2rad(inputAngle)),
                solution.couplerLen, solution.outputLen)

(* A call of interpolateOutputAngle for the linkage and the input angle of *)
(* posIn, the angle given in degrees; D is the joint it settled on         *)
LegacySolution ==
  [inputLen |-> posIn.r2, couplerLen |-> posIn.r3, outputLen |-> posIn.r4]

Interpolate ==
  /\ posOut = NotCalled
  /\ posOut' =
       [status |-> "interpolated",
        inputAngle |-> ToDegrees(posIn.theta).v,
        deg |-> interpolateOutputAngle(ToDegrees(posIn.theta).v, LegacySolution,
                                       posIn.r1),
        solved |-> ~NoIntersection(PivotB(posIn.r1),
                                   JointC(posIn.r1, posIn.r2, posIn.theta),
                                   posIn.r3, posIn.r4),
        D |-> JointDAt(PivotB(posIn.r1), JointC(posIn.r1, posIn.r2, posIn.theta),
                       posIn.r3, posIn.r4)]
  /\ UNCHANGED << synIn, synOut, posIn, ui, dom, browser, hist, linSys, linOut, norm >>

NextLegacy == Interpolate

(* D on the ground line to the left of B: Dy - By is a rounding residue    *)
(* (-2.2e-16 at 240 degrees with four links of length 1) or a signed zero, *)
(* and Math.atan2 returns pi or -pi by its sign.  These positions are left *)
(* out of the calls.                                                       *)
OnBranchCut(B, D) == Sign(Sub(D.y, B.y)) = 0 /\ Sign(Sub(D.x, B.x)) < 0

LegacyInputs ==
  { in \in PosInputs :
      NoIntersection(PivotB(in.r1), JointC(in.r1, in.r2, in.theta), in.r3, in.r4)
        \/ ~OnBranchCut(PivotB(in.r1),
                        JointDAt(PivotB(in.r1), JointC(in.r1, in.r2, in.theta),
                                 in.r3, in.r4)) }

InitLegacy ==
  /\ synIn = SynIdle
  /\ synOut = NotCalled
  /\ posIn \in LegacyInputs
  /\ posOut = NotCalled
  /\ PageClosed

SpecLegacy == InitLegacy /\ [][NextLegacy]_vars

----------------------------------------------------------------------------
(* The page of 4bar_synthesis.js (lines 1-248).  ui holds the script's     *)
(* variables (lines 9-17), dom the text fields, the slider element and the *)
(* label of the Play/Pause button, browser the animation-frame requests;   *)
(* hist.stepped tells whether the last handler ran animateLinkage with a   *)
(* solution present.  A text field is a sequence of comma-separated items, *)
(* each a number or not.  The grid search of leastSquaresSolver is kept as *)
(* the arguments it was called with: its sum of squares is finite for      *)
(* every list of numbers, so the first grid point already replaces null.   *)

Item(n) == [num |-> TRUE, v |-> n]
NotANumber == [num |-> FALSE, v |-> 0]
IsNumber(item) == item.num

(* parseAngles (line 19): parseFloat of each item, NaN filtered out *)
parseAngles(str) ==
  [i \in 1..Len(SelectSeq(str, IsNumber)) |-> SelectSeq(str, IsNumber)[i].v]

(* Math.min(...a) and Math.max(...a) for a non-empty array *)
MinOf(a) == CHOOSE m \in { a[i] : i \in 1..Len(a) } : \A i \in 1..Len(a) : m <= a[i]
MaxOf(a) == CHOOSE m \in { a[i] : i \in 1..Len(a) } : \A i \in 1..Len(a) : m >= a[i]

NullSolution == [k |-> "null"]

(* leastSquaresSolver (line 110) *)
leastSquaresSolver(groundLen, inputAngles, outputAngles) ==
  [k |-> "best", groundLen |-> groundLen,
   inputAngles |-> inputAngles, outputAngles |-> outputAngles]

(* the value a range input keeps when v is assigned to it *)
Sanitized(v, min, max) == IF v < min THEN min ELSE IF v > max THEN max ELSE v

(* lines 9-17 *)
LegacyDeclared ==
  [animationId |-> Null,
   isPlaying |-> FALSE,
   solution |-> NullSolution,
   inputAngles |-> << 30, 60, 90 >>,
   outputAngles |-> << 45, 75, 105 >>,
   groundLength |-> 200,
   currentInputAngle |-> 30]

(* what the user types into the three fields *)
LegacyFields ==
  [groundLength : { 200 },
   inputAngles : { << Item(30), Item(60), Item(90) >>,
                   << Item(60), Item(90), Item(120) >>,
                   << Item(60), NotANumber, Item(90) >> },
   outputAngles : { << Item(45), Item(75), Item(105) >>,
                    << Item(45), Item(75) >> }]

(* addSlider (line 226), run as the script loads *)
addSlider(fields) ==
  [ui |-> LegacyDeclared,
   dom |-> [groundLength |-> fields.groundLength,
            inputAngles |-> fields.inputAngles,
            outputAngles |-> fields.outputAngles,
            slider |-> [min |-> MinOf(LegacyDeclared.inputAngles),
                        max |-> MaxOf(LegacyDeclared.inputAngles),
                        value |-> LegacyDeclared.currentInputAngle],
            playPauseText |-> "Play"],
   browser |-> NoFrames,
   hist |-> [stepped |-> FALSE]]

(* lines 177-181: the slider's range and value after a synthesis *)
SliderUpdated(s) ==
  [s EXCEPT !.dom.slider =
     [min |-> MinOf(s.ui.inputAngles),
      max |-> MaxOf(s.ui.inputAngles),
      value |-> Sanitized(s.ui.currentInputAngle, MinOf(s.ui.inputAngles),
                          MaxOf(s.ui.inputAngles))]]

(* lines 167-181 *)
Searched(s) ==
  IF s.ui.solution = NullSolution THEN s ELSE SliderUpdated(s)

(* lines 163-181, with the three fields read *)
Validated(s) ==
  IF Len(s.ui.inputAngles) # Len(s.ui.outputAngles) \/ Len(s.ui.inputAngles) < 2
  THEN s
  ELSE Searched([s EXCEPT !.ui.solution =
                   leastSquaresSolver(s.ui.groundLength, s.ui.inputAngles,
                                      s.ui.outputAngles)])

(* synthesize (line 159) *)
synthesize(s) ==
  Validated([s EXCEPT !.ui.groundLength = s.dom.groundLength,
                      !.ui.inputAngles = parseAngles(s.dom.inputAngles),
                      !.ui.outputAngles = parseAngles(s.dom.outputAngles)])

(* lines 189-190: currentInputAngle += 1, back to minAngle beyond maxAngle *)
SweepNext(angle, minAngle, maxAngle) ==
  IF angle + 1 > maxAngle THEN minAngle ELSE angle + 1

(* lines 189-191 *)
Swept(s, angle) ==
  [s EXCEPT !.ui.currentInputAngle = angle,
            !.dom.slider.value = Sanitized(angle, s.dom.slider.min, s.dom.slider.max),
            !.hist.stepped = TRUE]

(* animateLinkage (line 184) *)
animateLinkage(s) ==
  IF s.ui.solution = NullSolution THEN s
  ELSE requestAnimationFrame(
         Swept(s, SweepNext(s.ui.currentInputAngle, MinOf(s.ui.inputAngles),
                            MaxOf(s.ui.inputAngles))))

(* playPauseBtn.onclick (line 212) *)
playPauseOnclick(s) ==
  IF s.ui.solution = NullSolution THEN s
  ELSE IF s.ui.isPlaying
       THEN [cancelAnimationFrame(s, s.ui.animationId)
               EXCEPT !.dom.playPauseText = "Play", !.ui.isPlaying = FALSE]
       ELSE animateLinkage([s EXCEPT !.ui.isPlaying = TRUE,
                                     !.dom.playPauseText = "Pause"])

(* slider.oninput (line 236), the slider's value being t *)
sliderOninput(s, t) ==
  [s EXCEPT !.dom.slider.value = t, !.ui.currentInputAngle = t]

Unstepped(s) == [s EXCEPT !.hist.stepped = FALSE]

InitOld ==
  /\ synIn = SynIdle
  /\ synOut = NotCalled
  /\ posIn = PosIdle
  /\ posOut = NotCalled
  /\ CallsIdle
  /\ \E fields \in LegacyFields :
       /\ ui = addSlider(fields).ui
       /\ dom = addSlider(fields).dom
       /\ browser = addSlider(fields).browser
       /\ hist = addSlider(fields).hist

OldEditFields ==
  /\ \E fields \in LegacyFields :
       dom' = [dom EXCEPT !.groundLength = fields.groundLength,
                          !.inputAngles = fields.inputAngles,
                          !.outputAngles = fields.outputAngles]
  /\ hist' = [hist EXCEPT !.stepped = FALSE]
  /\ UNCHANGED << synIn, synOut, posIn, posOut, ui, browser, linSys, linOut, norm >>

OldClickSynthesize ==
  /\ Becomes(synthesize(Unstepped(PageState)))
  /\ UNCHANGED << synIn, synOut, posIn, posOut, linSys, linOut, norm >>

OldClickPlayPause ==
  /\ Becomes(playPauseOnclick(Unstepped(PageState)))
  /\ UNCHANGED << synIn, synOut, posIn, posOut, linSys, linOut, norm >>

(* the user drags the slider to an end of its range or one step above its  *)
(* lower end                                                               *)
OldSeekSlider ==
  /\ \E t \in { dom.slider.min, dom.slider.min + 1, dom.slider.max } :
       /\ t # dom.slider.value
       /\ Becomes(sliderOninput(Unstepped(PageState), t))
  /\ UNCHANGED << synIn, synOut, posIn, posOut, linSys, linOut, norm >>

OldFireFrame ==
  /\ browser.frames # {}
  /\ Becomes(animateLinkage(Taken(Unstepped(PageState), Oldest(browser.frames))))
  /\ UNCHANGED << synIn, synOut, posIn, posOut, linSys, linOut, norm >>

NextOld ==
  \/ OldEditFields
  \/ OldClickSynthesize
  \/ OldClickPlayPause
  \/ OldSeekSlider
  \/ OldFireFrame

SpecOld == InitOld /\ [][NextOld]_vars

----------------------------------------------------------------------------
(* A call of doubleRockerSynthesis (synthesis_core.js:2), statement by     *)
(* statement.  synIn holds the arguments, norm the state of the search on  *)
(* the normalized lengths (x, step, iter, best, improved and the position  *)
(* in the two nested for loops, xnew and c of the trial under way), synOut *)
(* the returned object.                                                    *)

MaxSearchIter == 24

(* line 4: const r1_norm = 1.0 *)
r1_norm == One

(* line 26: let step = 0.05; line 43: step *= 0.5 *)
FirstStep == Q(1, 0, 20)
Half == Q(1, 0, 2)

(* lines 11-12: inputAngles.map(a => a * Math.PI / 180) *)
InRadians(angles) == [i \in 1..3 |-> Ang((angles[i] * PI) \div 180)]

(* lines 13-18: Ai(i) and Bi(i), around A = [-r1_norm/2, 0] and            *)
(* B = [r1_norm/2, 0]                                                      *)
Ai(r2, theta, i) ==
  [x |-> Add(Div(Neg(r1_norm), Int2Q(2)), Mul(r2, MathCos(theta[i]))),
   y |-> Add(Zero, Mul(r2, MathSin(theta[i])))]

Bi(r4, phi, i) ==
  [x |-> Add(Div(r1_norm, Int2Q(2)), Mul(r4, MathCos(phi[i]))),
   y |-> Add(Zero, Mul(r4, MathSin(phi[i])))]

(* lines 19-21 and 59-61: Math.hypot(Ai(i)[0] - Bi(i)[0], Ai(i)[1] - Bi(i)[1]) *)
CouplerAt(r2, r4, theta, phi, i) ==
  MathHypot(Sub(Ai(r2, theta, i).x, Bi(r4, phi, i).x),
            Sub(Ai(r2, theta, i).y, Bi(r4, phi, i).y))

(* line 22: (d1 - d2)**2 + (d2 - d3)**2 *)
SumOfSquares(d1, d2, d3) ==
  Add(Mul(Sub(d1, d2), Sub(d1, d2)), Mul(Sub(d2, d3), Sub(d2, d3)))

(* lines 6-23: cost(x), with the angles of the enclosing call *)
cost(x, inputAngles, outputAngles) ==
  SumOfSquares(
    CouplerAt(x[1], x[2], InRadians(inputAngles), InRadians(outputAngles), 1),
    CouplerAt(x[1], x[2], InRadians(inputAngles), InRadians(outputAngles), 2),
    CouplerAt(x[1], x[2], InRadians(inputAngles), InRadians(outputAngles), 3))

(* lines 30-31: the four trials of one iteration, in the order of          *)
(* for (i = 0; i < 2; i++) for (dir of [-1, 1])                            *)
LastTrial == 3
TrialIndex(k) == (k \div 2) + 1
TrialDir(k) == IF k % 2 = 0 THEN -1 ELSE 1

(* lines 32-33: xnew = x.slice(); xnew[i] += dir * step *)
Moved(x, k, step) ==
  [x EXCEPT ![TrialIndex(k)] = Add(x[TrialIndex(k)], Mul(Int2Q(TrialDir(k)), step))]

(* line 34 with < in place of <= *)
Skipped_OnlyNegative(xnew, k) == Lt(xnew[TrialIndex(k)], Zero)

(* line 34: xnew[i] <= 0 *)
Skipped(xnew, k) ==
  Lt(xnew[TrialIndex(k)], Zero) \/ Unsigned(xnew[TrialIndex(k)]) = Zero

(* the end of the body of the inner loop: the next trial, or line 43 *)
AfterTrial(n) ==
  IF n.trial = LastTrial THEN [n EXCEPT !.pc = "end"]
  ELSE [n EXCEPT !.trial = n.trial + 1]

(* line 43: if (!improved) step *= 0.5 *)
StepAfter(n) == IF n.improved THEN n.step ELSE Mul(n.step, Half)

(* The doubles below 2^-1022 are the multiples n * Number.MIN_VALUE of the *)
(* smallest positive double; a product with one of them is rounded to the  *)
(* nearest multiple, a tie to the even one.                                *)
Denormal(n) == [a |-> n, b |-> 0, c |-> 1, unit |-> "MIN_VALUE"]
IsDenormal(v) == "unit" \in DOMAIN v
MinValue == Denormal(1)

(* the integer nearest to the rational v, the even one of two *)
RoundToEven(v) ==
  IF 2 * (v.a % v.c) < v.c THEN v.a \div v.c
  ELSE IF 2 * (v.a % v.c) > v.c THEN (v.a \div v.c) + 1
  ELSE (v.a \div v.c) + ((v.a \div v.c) % 2)

(* line 64: const scale = groundLen / r1_norm *)
Scale(groundLen) == IF IsDenormal(groundLen) THEN groundLen ELSE Div(groundLen, r1_norm)

(* lines 66-71: v * scale *)
Times(v, scale) ==
  IF ~IsDenormal(scale) THEN Mul(v, scale)
  ELSE IF IsFinite(v) THEN Denormal(RoundToEven(Mul(v, Int2Q(scale.a))))
  ELSE Mul(v, Int2Q(scale.a))

(* line 62: (d1 + d2 + d3) / 3 *)
MeanCoupler(d1, d2, d3) == Div(Add(Add(d1, d2), d3), Int2Q(3))

(* lines 47-72: the returned object *)
Returned(x, groundLen, theta, phi) ==
  [status |-> "returned",
   inputLen |-> Times(x[1], Scale(groundLen)),
   outputLen |-> Times(x[2], Scale(groundLen)),
   couplerLen |->
     Times(MeanCoupler(CouplerAt(x[1], x[2], theta, phi, 1),
                       CouplerAt(x[1], x[2], theta, phi, 2),
                       CouplerAt(x[1], x[2], theta, phi, 3)), Scale(groundLen)),
   d1 |-> Times(CouplerAt(x[1], x[2], theta, phi, 1), Scale(groundLen)),
   d2 |-> Times(CouplerAt(x[1], x[2], theta, phi, 2), Scale(groundLen)),
   d3 |-> Times(CouplerAt(x[1], x[2], theta, phi, 3), Scale(groundLen))]

(* The precision angles are 0 or 180 degrees, so that every moving pivot   *)
(* lies on the ground line and Math.hypot is a difference of abscissas.    *)
(* Of these the calls are kept in which one input angle is 0 and the       *)
(* output angle of that position and of one other position is 0: on them   *)
(* no trial cost equals the best cost (DecidedExactly), so that no         *)
(* comparison of line 36 is decided by the rounding of the doubles.        *)
StraightAngles == { 0, 180 }
StraightTriples ==
  { << a, b, c >> : a \in StraightAngles, b \in StraightAngles, c \in StraightAngles }
ZeroAt(angles) == { i \in 1..3 : angles[i] = 0 }

SearchPairs ==
  { p \in StraightTriples \X StraightTriples :
      /\ Cardinality(ZeroAt(p[1])) = 1
      /\ Cardinality(ZeroAt(p[2])) = 2
      /\ ZeroAt(p[1]) \subseteq ZeroAt(p[2]) }

(* groundLen is zero or positive, down to the smallest positive double;    *)
(* tol and maxIter are the optional arguments                              *)
SearchGrounds == { Zero, MinValue } \cup GroundLengths
SearchTols == { Q(1, 0, 25), Q(1, 0, 50) }
SearchCaps == { 0, 3, MaxSearchIter }

SearchCalls ==
  { [groundLen |-> g, inputAngles |-> p[1], outputAngles |-> p[2],
     tol |-> t, maxIter |-> m] :
      g \in SearchGrounds, p \in SearchPairs, t \in SearchTols, m \in SearchCaps }

(* lines 25-27: let x = [1, 1]; let step = 0.05; let iter = 0 *)
InitSearch ==
  /\ synIn \in SearchCalls
  /\ synOut = NotCalled
  /\ posIn = PosIdle
  /\ posOut = NotCalled
  /\ PageIdle
  /\ linSys = NoSystem
  /\ linOut = NotCalled
  /\ norm = [pc |-> "for", x |-> << One, One >>, step |-> FirstStep, iter |-> 0,
             best |-> NaN, improved |-> FALSE, trial |-> 0,
             xnew |-> << One, One >>, c |-> NaN]

(* lines 27-29: iter < maxIter; let best = cost(x); let improved = false *)
BeginIter ==
  /\ norm.pc = "for"
  /\ norm' = IF norm.iter < synIn.maxIter
             THEN [norm EXCEPT !.pc = "trial",
                               !.best = cost(norm.x, synIn.inputAngles, synIn.outputAngles),
                               !.improved = FALSE,
                               !.trial = 0]
             ELSE [norm EXCEPT !.pc = "return"]
  /\ UNCHANGED << synIn, synOut, posIn, posOut, ui, dom, browser, hist, linSys, linOut >>

(* lines 32-34: xnew[i] += dir * step; if (xnew[i] <= 0) continue *)
SkipMove ==
  /\ norm.pc = "trial"
  /\ Skipped(Moved(norm.x, norm.trial, norm.step), norm.trial)
  /\ norm' = AfterTrial([norm EXCEPT !.xnew = Moved(norm.x, norm.trial, norm.step)])
  /\ UNCHANGED << synIn, synOut, posIn, posOut, ui, dom, browser, hist, linSys, linOut >>

(* lines 32-35: xnew[i] += dir * step; let c = cost(xnew) *)
TryMove ==
  /\ norm.pc = "trial"
  /\ ~Skipped(Moved(norm.x, norm.trial, norm.step), norm.trial)
  /\ norm' = [norm EXCEPT !.pc = "compare",
                          !.xnew = Moved(norm.x, norm.trial, norm.step),
                          !.c = cost(Moved(norm.x, norm.trial, norm.step),
                                     synIn.inputAngles, synIn.outputAngles)]
  /\ UNCHANGED << synIn, synOut, posIn, posOut, ui, dom, browser, hist, linSys, linOut >>

(* lines 36-40: c < best; x = xnew; best = c; improved = true *)
AcceptMove ==
  /\ norm.pc = "compare"
  /\ Lt(norm.c, norm.best)
  /\ norm' = AfterTrial([norm EXCEPT !.pc = "trial", !.x = norm.xnew,
                                     !.best = norm.c, !.improved = TRUE])
  /\ UNCHANGED << synIn, synOut, posIn, posOut, ui, dom, browser, hist, linSys, linOut >>

(* line 36: c < best is false *)
RejectMove ==
  /\ norm.pc = "compare"
  /\ ~Lt(norm.c, norm.best)
  /\ norm' = AfterTrial([norm EXCEPT !.pc = "trial"])
  /\ UNCHANGED << synIn, synOut, posIn, posOut, ui, dom, browser, hist, linSys, linOut >>

(* lines 43-44 and iter++: if (!improved) step *= 0.5; if (step < tol) break *)
EndIter ==
  /\ norm.pc = "end"
  /\ norm' = IF Lt(StepAfter(norm), synIn.tol)
             THEN [norm EXCEPT !.pc = "return", !.step = StepAfter(norm)]
             ELSE [norm EXCEPT !.pc = "for", !.step = StepAfter(norm),
                               !.iter = norm.iter + 1]
  /\ UNCHANGED << synIn, synOut, posIn, posOut, ui, dom, browser, hist, linSys, linOut >>

(* lines 46-72 *)
ReturnLengths ==
  /\ norm.pc = "return"
  /\ synOut' = Returned(norm.x, synIn.groundLen,
                        InRadians(synIn.inputAngles), InRadians(synIn.outputAngles))
  /\ norm' = [norm EXCEPT !.pc = "done"]
  /\ UNCHANGED << synIn, posIn, posOut, ui, dom, browser, hist, linSys, linOut >>

NextSearch ==
  BeginIter \/ SkipMove \/ TryMove \/ AcceptMove \/ RejectMove \/ EndIter
    \/ ReturnLengths

SpecSearch == InitSearch /\ [][NextSearch]_vars

(* on the calls of SearchCalls every comparison c < best of line 36 is     *)
(* between two different numbers                                           *)
DecidedExactly == norm.pc = "compare" => norm.c # norm.best

----------------------------------------------------------------------------
(* Properties of threePositionSynthesis, checked under SpecSynth *)

SynCalled == synOut.status # "none"

WellShaped ==
  /\ synIn.thetaDeg.isArray
  /\ Len(synIn.thetaDeg.items) = 3
  /\ synIn.phiDeg.isArray
  /\ Len(synIn.phiDeg.items) = 3

ThetaRad(i) == deg2rad(synIn.thetaDeg.items[i])
PhiRad(i) == deg2rad(synIn.phiDeg.items[i])

(* x = y as numbers: false when either is NaN *)
NumEq(x, y) == ~IsNaN(x) /\ ~IsNaN(y) /\ Unsigned(x) = Unsigned(y)

Square(x) == Mul(x, x)
Twice(x) == Mul(Int2Q(2), x)

(* r1^2 + r2^2 + r4^2 + 2 r1 r4 cos(phi) - 2 r1 r2 cos(theta) - 2 r2 r4 cos(theta - phi) *)
ClosureRhs(r1, r2, r4, theta, phi) ==
  Sub(Sub(Add(Add(Add(Square(r1), Square(r2)), Square(r4)),
              Mul(Twice(Mul(r1, r4)), MathCos(phi))),
          Mul(Twice(Mul(r1, r2)), MathCos(theta))),
      Mul(Twice(Mul(r2, r4)), MathCos(AngSub(theta, phi))))

ClosureAt(i) ==
  NumEq(synOut.r3.sq,
        ClosureRhs(synOut.r1, synOut.r2, synOut.r4, ThetaRad(i), PhiRad(i)))

(* C1: whenever threePositionSynthesis returns lengths for a well-shaped   *)
(* input with positive r1, they satisfy the loop-closure constraint        *)
(* r3^2 = r1^2 + r2^2 + r4^2 + 2 r1 r4 cos(phi_i) - 2 r1 r2 cos(theta_i)   *)
(* - 2 r2 r4 cos(theta_i - phi_i) at each of the three precision pairs.    *)
C1_LoopClosure ==
  (synOut.status = "ok") => \A i \in 1..3 : ClosureAt(i)

Positive(x) == IsFinite(x) /\ Sign(x) > 0

(* C2: whenever threePositionSynthesis returns for a positive r1, the      *)
(* returned r2, r3 and r4 are strictly positive finite numbers.            *)
C2_PositiveLengths ==
  (synOut.status = "ok") =>
    /\ Positive(synOut.r2)
    /\ SurdIsFinite(synOut.r3) /\ synOut.r3.sgn > 0
    /\ Positive(synOut.r4)

DuplicateTheta ==
  \E i, j \in 1..3 : i # j /\ synIn.thetaDeg.items[i] = synIn.thetaDeg.items[j]

DuplicatePair ==
  \E i, j \in 1..3 :
    /\ i # j
    /\ synIn.thetaDeg.items[i] = synIn.thetaDeg.items[j]
    /\ synIn.phiDeg.items[i] = synIn.phiDeg.items[j]

C6_ShapeError ==
  SynCalled => ((synOut = Throw(ShapeMsg)) <=> ~WellShaped)

C6_Witness ==
  /\ synOut = Throw(ShapeMsg)
  /\ ~synIn.thetaDeg.isArray
  /\ Len(synIn.thetaDeg.items) = 3
  /\ synIn.phiDeg.isArray
  /\ Len(synIn.phiDeg.items) = 3

DesignDet ==
  Det3(DesignMatrix([i \in 1..3 |-> ThetaRad(i)], [i \in 1..3 |-> PhiRad(i)]))

DesignSolve ==
  solve3x3(DesignMatrix([i \in 1..3 |-> ThetaRad(i)], [i \in 1..3 |-> PhiRad(i)]),
           DesignRhs([i \in 1..3 |-> ThetaRad(i)], [i \in 1..3 |-> PhiRad(i)]))

(* C7: for well-shaped input, threePositionSynthesis fails with the        *)
(* singular-system error exactly when the determinant of the matrix with   *)
(* rows [1, cos(phi_i), -cos(theta_i)] has absolute value below 1e-12; in  *)
(* that case nothing is divided by the determinant and no lengths are      *)
(* returned.                                                               *)
C7_SingularIff ==
  (SynCalled /\ WellShaped) =>
    /\ (synOut = Throw(SingularMsg)) <=> BelowPow10(MathAbs(DesignDet), TolExp)
    /\ (synOut = Throw(SingularMsg)) => DesignSolve.divisions = 0
    /\ (synOut.status = "ok") => DesignSolve.divisions = 3

C7_Witness ==
  /\ WellShaped
  /\ ~DuplicateTheta
  /\ synOut = Throw(SingularMsg)

----------------------------------------------------------------------------
(* Properties of solveFourBarPhi and computeFourBarPositions, checked      *)
(* under SpecPhi                                                           *)

PosCalled == posOut.status # "none"

(* the joint A, the vector O4 -> A and the distance d of the call *)
JointA == [x |-> Mul(posIn.r2, MathCos(posIn.theta)),
           y |-> Mul(posIn.r2, MathSin(posIn.theta))]
DistD == MathHypot(Sub(JointA.x, posIn.r1), JointA.y)

(* d > r3 + r4 or d < |r3 - r4| *)
PosUnreachable ==
  \/ Gt(DistD, Add(posIn.r3, posIn.r4))
  \/ Lt(DistD, MathAbs(Sub(posIn.r3, posIn.r4)))

(* delta = atan2(A.y, A.x - r1) and                                        *)
(* gamma = acos(clamp((d^2 + r4^2 - r3^2) / (2 d r4), -1, 1))              *)
Delta == MathAtan2(JointA.y, Sub(JointA.x, posIn.r1))
Gamma ==
  MathAcos(MathMin(One, MathMax(Neg(One),
    Div(Sub(Add(Square(DistD), Square(posIn.r4)), Square(posIn.r3)),
        Mul(Twice(DistD), posIn.r4)))))
OpenPhi == AngAdd(Delta, Gamma)
ClosedPhi == AngSub(Delta, Gamma)

NaNPoint(P) == IsNaN(P.x) /\ IsNaN(P.y)
FinitePoint(P) == IsFinite(P.x) /\ IsFinite(P.y)

(* C3: for a theta at which the linkage cannot be assembled                *)
(* (d > r3 + r4 or d < |r3 - r4|), solveFourBarPhi and                     *)
(* computeFourBarPositions signal an error instead of returning NaN, NaN   *)
(* joint coordinates or a numeric angle.                                   *)
C3_UnreachableRaises ==
  (PosCalled /\ PosUnreachable) => posOut.status = "throw"

(* |P - Q|^2 *)
Dist2(P, R) == Add(Square(Sub(P.x, R.x)), Square(Sub(P.y, R.y)))

(* C8: for every theta at which the linkage can be assembled with d > 0,   *)
(* the positions returned by computeFourBarPositions satisfy |A - B| = r3  *)
(* (as |A - B|^2 = r3^2), whichever branch was selected, and B lies at     *)
(* distance r4 from O4.                                                    *)
C8_CouplerLength ==
  (PosCalled /\ ~PosUnreachable /\ Sign(DistD) > 0) =>
    /\ NumEq(Dist2(posOut.pos.A, posOut.pos.B), Square(posIn.r3))
    /\ NumEq(Dist2(posOut.pos.O4, posOut.pos.B), Square(posIn.r4))

C8_Witness ==
  /\ PosCalled
  /\ ~PosUnreachable
  /\ Sign(DistD) > 0
  /\ posOut.mode = NoMode
  /\ AngIsNum(posOut.prevPhi)
  /\ OpenPhi # ClosedPhi
  /\ posOut.pos.phi = ClosedPhi
  /\ Sign(posOut.pos.B.y) < 0
  /\ posIn.r3 # posIn.r4

(* C9: when the linkage can be assembled, solveFourBarPhi with mode "open" *)
(* returns delta + gamma and with mode "closed" or "crossed" returns       *)
(* delta - gamma, whatever prevPhi is.                                     *)
C9_ExplicitMode ==
  (PosCalled /\ ~PosUnreachable) =>
    /\ (posOut.mode = "open") => posOut.phi = OpenPhi
    /\ (posOut.mode \in { "closed", "crossed" }) => posOut.phi = ClosedPhi

(* prevPhi is the open candidate, the mode asks for the other one *)
C9_Witness ==
  /\ PosCalled
  /\ ~PosUnreachable
  /\ posOut.mode = "crossed"
  /\ AngIsNum(OpenPhi)
  /\ OpenPhi # ClosedPhi
  /\ posOut.prevPhi = OpenPhi
  /\ posOut.phi = ClosedPhi

(* the representative in (-pi, pi] of an angle, and the distance of a      *)
(* candidate from prevPhi                                                  *)
Wrap(v) == ((v + PI - 1) % (2 * PI)) - PI + 1
Away(cand, prevPhi) == IAbs(Wrap(cand.v - prevPhi.v))

(* C10: when the linkage can be assembled and no mode is given,            *)
(* solveFourBarPhi returns the open candidate if prevPhi is undefined or   *)
(* NaN, and otherwise the candidate whose difference from prevPhi,         *)
(* normalized into (-pi, pi], is smaller in absolute value; the value      *)
(* returned is always one of the two candidates.                           *)
C10_Continuity ==
  (PosCalled /\ ~PosUnreachable /\ posOut.mode = NoMode) =>
    /\ posOut.phi \in { OpenPhi, ClosedPhi }
    /\ (posOut.prevPhi \in { Undefined, AngNaN }) => posOut.phi = OpenPhi
    /\ (AngIsNum(posOut.prevPhi) /\ AngIsNum(OpenPhi) /\ AngIsNum(ClosedPhi)) =>
         /\ Away(OpenPhi, posOut.prevPhi) < Away(ClosedPhi, posOut.prevPhi)
              => posOut.phi = OpenPhi
         /\ Away(ClosedPhi, posOut.prevPhi) < Away(OpenPhi, posOut.prevPhi)
              => posOut.phi = ClosedPhi

(* the closed candidate is the nearer one only after the difference is    *)
(* normalized                                                              *)
C10_Witness ==
  /\ PosCalled
  /\ ~PosUnreachable
  /\ posOut.mode = NoMode
  /\ AngIsNum(posOut.prevPhi)
  /\ AngIsNum(OpenPhi)
  /\ OpenPhi # ClosedPhi
  /\ IAbs(ClosedPhi.v - posOut.prevPhi.v) > IAbs(OpenPhi.v - posOut.prevPhi.v)
  /\ posOut.phi = ClosedPhi

----------------------------------------------------------------------------
(* The two assembly modes and the joints returned *)

(* what solveFourBarPhi returns for the call's arguments under another mode *)
PhiUnder(mode) ==
  solveFourBarPhi(posIn.r1, posIn.r2, posIn.r3, posIn.r4, posIn.theta,
                  posOut.prevPhi, mode)

ModesDiffer ==
  /\ posOut.mode = "open" => posOut.phi # PhiUnder("closed")
  /\ posOut.mode = "closed" => posOut.phi # PhiUnder("open")

(* C13 as stated: for every theta at which the linkage can be assembled,   *)
(* solveFourBarPhi returns different values with mode "open" and with mode *)
(* "closed" unless gamma is 0.                                             *)
C13_ModesDiffer ==
  (PosCalled /\ ~PosUnreachable /\ Gamma # Ang(0)) => ModesDiffer

(* C13 as amended: for every theta at which the linkage can be assembled   *)
(* and A does not coincide with O4 (d > 0), solveFourBarPhi returns        *)
(* different values with mode "open" and with mode "closed" unless gamma   *)
(* is 0; at d = |r3 - r4| > 0, where gamma = pi, they differ by 2 pi.      *)
C13_ModesDifferAwayFromO4 ==
  (PosCalled /\ ~PosUnreachable /\ Sign(DistD) > 0 /\ Gamma # Ang(0)) =>
    /\ ModesDiffer
    /\ AngIsNum(posOut.phi)
    /\ Gamma = Ang(PI) => AngSub(OpenPhi, ClosedPhi) = Ang(2 * PI)

(* the inner tangency d = |r3 - r4| > 0, solved in mode "open" *)
C13_Witness ==
  /\ PosCalled
  /\ ~PosUnreachable
  /\ Sign(DistD) > 0
  /\ DistD = MathAbs(Sub(posIn.r3, posIn.r4))
  /\ Gamma = Ang(PI)
  /\ posOut.mode = "open"
  /\ posOut.phi = OpenPhi
  /\ PhiUnder("closed") = ClosedPhi

(* the same number, or NaN on both sides *)
SameValue(x, y) == Unsigned(x) = Unsigned(y)

(* C14: computeFourBarPositions returns O2 = (0, 0), O4 = (r1, 0),         *)
(* A = (r2 cos theta, r2 sin theta), the phi that solveFourBarPhi returns  *)
(* for the same arguments, and B = O4 + r4 (cos phi, sin phi); O2, O4 and  *)
(* A are the same whatever prevPhi and mode are.                           *)
C14_Joints ==
  PosCalled =>
    /\ posOut.pos.O2 = [x |-> Zero, y |-> Zero]
    /\ posOut.pos.O4 = [x |-> posIn.r1, y |-> Zero]
    /\ posOut.pos.A = JointA
    /\ posOut.pos.phi = posOut.phi
    /\ SameValue(posOut.pos.B.x, Add(posIn.r1, Mul(posIn.r4, MathCos(posOut.phi))))
    /\ SameValue(posOut.pos.B.y, Mul(posIn.r4, MathSin(posOut.phi)))

(* the closed branch was asked for while prevPhi is the open candidate *)
C14_Witness ==
  /\ PosCalled
  /\ ~PosUnreachable
  /\ posOut.mode = "closed"
  /\ AngIsNum(OpenPhi)
  /\ OpenPhi # ClosedPhi
  /\ posOut.prevPhi = OpenPhi
  /\ posOut.pos.phi = ClosedPhi
  /\ Sign(posOut.pos.B.y) # 0

----------------------------------------------------------------------------
(* Scaling by the ground length *)

(* the synthesis of the same angles for the ground length 1 *)
UnitSynthesis == threePositionSynthesis(synIn.thetaDeg, synIn.phiDeg, One)

(* C15: threePositionSynthesis returns r1 as given, and r2, r3, r4 equal   *)
(* to r1 times the r2, r3, r4 it returns for the same angles and the       *)
(* ground length 1.                                                        *)
C15_ScalesWithGround ==
  (SynCalled /\ synOut.status = "ok") =>
    /\ UnitSynthesis.status = "ok"
    /\ synOut.r1 = synIn.r1
    /\ synOut.r2 = Mul(synIn.r1, UnitSynthesis.r2)
    /\ synOut.r3 = SurdMul(UnitSynthesis.r3, synIn.r1)
    /\ synOut.r4 = Mul(synIn.r1, UnitSynthesis.r4)

(* a ground length other than 1 and finite, non-zero lengths *)
C15_Witness ==
  /\ SynCalled
  /\ synOut.status = "ok"
  /\ synIn.r1 = Int2Q(2)
  /\ IsFinite(synOut.r2) /\ Sign(synOut.r2) > 0
  /\ IsFinite(synOut.r4) /\ Sign(synOut.r4) > 0
  /\ SurdIsFinite(synOut.r3) /\ synOut.r3.sgn > 0
  /\ synOut.r3 # UnitSynthesis.r3

----------------------------------------------------------------------------
(* The page's continuity cell, animation frames and synthesis errors       *)

(* C11: the first position solve after a switch of the assembly mode or    *)
(* after a successful synthesis is called with prevPhi absent              *)
C11_ResetOnNewSweep ==
  hist.call.after \in { "mode", "synthesis" } => hist.call.absent

(* a frame of the running animation made the first solve after a switch    *)
(* of the mode                                                              *)
C11_Witness ==
  /\ hist.call.made
  /\ hist.call.after = "mode"
  /\ hist.call.absent
  /\ ui.playing
  /\ ui.prevPhi # Undefined

(* C12: the first position solve after a seek of the slider is called with *)
(* prevPhi absent, whether or not the animation is playing                 *)
C12_SeekResets == hist.call.after = "seek" => hist.call.absent

(* C19: at most one animation-frame request for animate is pending *)
C19_OneFramePending == Cardinality(browser.frames) <= 1

(* C20: a click on Synthesize whose synthesis raises leaves the mechanism  *)
(* state, playing, prevPhi and the slider as they were                     *)
C20_ErrorLeavesState ==
  [][hist'.last = "synthesis error" => ui' = ui /\ dom'.slider = dom.slider]_vars

----------------------------------------------------------------------------
(* solve3x3 and normalizeAngle *)

SolveReturned == linOut.status = "called" /\ linOut.result.status = "ok"

(* row i of A times x *)
RowTimes(A, x, i) ==
  Add(Add(Mul(A[i][1], x[1]), Mul(A[i][2], x[2])), Mul(A[i][3], x[3]))

(* C16: whenever solve3x3(A, b) returns x, the determinant of A is not 0,  *)
(* A x = b holds in each of the three rows (x is the one solution), and A  *)
(* and b are as they were passed.                                          *)
C16_SolvesSystem ==
  SolveReturned =>
    /\ Sign(Det3(linOut.given.A)) # 0
    /\ \A i \in 1..3 :
         NumEq(RowTimes(linOut.given.A, linOut.result.x, i), linOut.given.b[i])
    /\ linSys = linOut.given

(* a solution with three non-zero components, the first two different *)
C16_Witness ==
  /\ SolveReturned
  /\ \A i \in 1..3 : Sign(linOut.result.x[i]) # 0
  /\ linOut.result.x[1] # linOut.result.x[2]
  /\ linOut.given.b[1] # linOut.given.b[2]

(* C17: for every finite argument normalizeAngle terminates (before it     *)
(* returns, every pass through a loop test changes a or leaves the loop)   *)
(* and returns a value a with -pi < a <= pi that differs from the argument *)
(* by a multiple of 2 pi.                                                  *)
C17_NormalizesEveryAngle ==
  /\ norm.pc \in { "raise", "lower" } => ENABLED << NextNorm >>_vars
  /\ norm.pc = "done" =>
       /\ AngIsNum(norm.a)
       /\ -PI < norm.a.v /\ norm.a.v <= PI
       /\ (norm.a.v - norm.angle.v) % (2 * PI) = 0

----------------------------------------------------------------------------
(* Continuity on repeated evaluation, checked under SpecTwice *)

(* C21: when solveFourBarPhi, called without a mode at a theta at which    *)
(* the linkage can be assembled, is called again for the same theta with   *)
(* the phi it returned as prevPhi, it returns exactly that phi again.      *)
C21_FixedPoint ==
  (posOut.status = "again" /\ ~PosUnreachable) => posOut.phi = posOut.first

(* C22: without a mode and with a numeric prevPhi, solveFourBarPhi returns *)
(* the open candidate delta + gamma only when its normalized distance from *)
(* prevPhi is strictly the smaller one; when the two distances are equal   *)
(* it returns the closed candidate delta - gamma.                          *)
C22_TieGoesClosed ==
  (/\ PosCalled
   /\ ~PosUnreachable
   /\ posOut.mode = NoMode
   /\ AngIsNum(posOut.prevPhi)
   /\ AngIsNum(OpenPhi)) =>
    /\ (posOut.phi = OpenPhi /\ OpenPhi # ClosedPhi)
          => Away(OpenPhi, posOut.prevPhi) < Away(ClosedPhi, posOut.prevPhi)
    /\ Away(OpenPhi, posOut.prevPhi) = Away(ClosedPhi, posOut.prevPhi)
          => posOut.phi = ClosedPhi

(* prevPhi is the open candidate itself and gamma is pi: both distances    *)
(* are 0 and the closed candidate, 2 pi below, is returned                 *)
C22_Witness ==
  /\ posOut.status = "again"
  /\ ~PosUnreachable
  /\ posOut.prevPhi = OpenPhi
  /\ OpenPhi # ClosedPhi
  /\ Away(OpenPhi, posOut.prevPhi) = Away(ClosedPhi, posOut.prevPhi)
  /\ posOut.phi = ClosedPhi

----------------------------------------------------------------------------
(* The page's assembly mode and slider, checked under SpecUI *)

(* the positions of the linkages with ground and crank of length 1; on    *)
(* some of them the two candidates differ                                  *)
ModeSamples ==
  { in \in [r1 : { One }, r2 : { One }, r3 : Lengths, r4 : Lengths, theta : Thetas] :
      Representable(in) }

(* the modes under which the phi of computeFourBarPositions is the same    *)
(* whatever prevPhi is passed                                              *)
ModesIgnoringPrevPhi ==
  { mode \in Modes :
      \A in \in ModeSamples, prevPhi \in PrevPhis :
        computeFourBarPositions(in.r1, in.r2, in.r3, in.r4, in.theta,
                                prevPhi, mode).phi
          = computeFourBarPositions(in.r1, in.r2, in.r3, in.r4, in.theta,
                                    Undefined, mode).phi }

(* C23: in every state of the page assemblyMode is 'open' or 'closed', and *)
(* with that mode the phi of computeFourBarPositions is the same whatever  *)
(* prevPhi is passed: the nearest-branch rule is not consulted.            *)
C23_ExplicitModeOnly ==
  /\ ui.assemblyMode \in { "open", "closed" }
  /\ ui.assemblyMode \in ModesIgnoringPrevPhi

(* a solve in mode 'closed' that was handed a stored prevPhi *)
C23_Witness ==
  /\ ui.assemblyMode = "closed"
  /\ hist.call.made
  /\ ~hist.call.absent
  /\ hist.call.after = "none"
  /\ ~ui.playing
  /\ ui.prevPhi = PhiAt(thetaFromSlider(ui.thetaVals, dom.slider), "closed")

(* C24: a run of animate from an animation frame leaves the slider in      *)
(* [0, 1]; while playing it advances the slider by 0.002, back to 0 when   *)
(* the advanced value exceeds 1, and requests the next frame; while not    *)
(* playing it leaves the slider as it is and requests no frame.  No        *)
(* handler that ends with playing false leaves a new request behind.       *)
C24_AnimateKeepsSlider ==
  [][/\ FireFrame =>
          /\ dom'.slider \in 0..SliderMax
          /\ ui.playing =>
               /\ dom'.slider = (IF dom.slider + SliderStep > SliderMax
                                 THEN 0 ELSE dom.slider + SliderStep)
               /\ browser'.handle = browser.handle + 1
               /\ browser'.frames =
                    (browser.frames \ { Oldest(browser.frames) })
                      \cup { browser.handle + 1 }
          /\ ~ui.playing =>
               /\ dom'.slider = dom.slider
               /\ browser'.handle = browser.handle
               /\ browser'.frames = browser.frames \ { Oldest(browser.frames) }
     /\ ~ui'.playing => browser'.frames \subseteq browser.frames]_vars

(* the frame that solved at the slider's end has wrapped the slider to 0 *)
C24_Witness ==
  /\ ui.playing
  /\ dom.slider = 0
  /\ browser.frames # {}
  /\ ui.prevPhi = PhiAt(thetaFromSlider(ui.thetaVals, SliderMax), ui.assemblyMode)

(* what threePositionSynthesis returns for the contents of the fields *)
FieldSynthesis ==
  threePositionSynthesis(Array(dom.thetaInputs), Array(dom.phiInputs),
                         Int2Q(dom.r1Input))

(* C25: right after a successful performSynthesis, also one invoked while  *)
(* playing, playing is false, the Play/Pause button is enabled and reads   *)
(* 'Play', the slider is enabled at 0, and r2, r3, r4 are the lengths just *)
(* synthesized; and while playing is false the slider's value changes only *)
(* by a seek of the user or by another synthesis.                          *)
C25_AfterSynthesis ==
  /\ [](hist.last = "synthesis" =>
          /\ ~ui.playing
          /\ ~dom.playPauseDisabled
          /\ dom.playPauseText = "Play"
          /\ ~dom.sliderDisabled
          /\ dom.slider = 0
          /\ FieldSynthesis.status = "ok"
          /\ ui.r2 = FieldSynthesis.r2
          /\ ui.r3 = FieldSynthesis.r3
          /\ ui.r4 = FieldSynthesis.r4)
  /\ [][(~ui.playing /\ dom'.slider # dom.slider)
          => (SeekSlider \/ ClickSynthesize)]_vars

(* a synthesis for the larger ground length invoked while playing, its    *)
(* frame request still pending                                             *)
C25_Witness ==
  /\ hist.last = "synthesis"
  /\ browser.frames # {}
  /\ ~ui.playing
  /\ ui.r1 = Int2Q(MaxGround)
  /\ ui.r2 = FieldSynthesis.r2

----------------------------------------------------------------------------
(* The legacy position solver, checked under SpecLegacy *)

Interpolated == posOut.status = "interpolated"

(* C26: the joint D from which interpolateOutputAngle derives the angle it *)
(* returns lies on or above the ground line: D.y >= 0.                     *)
C26_JointAboveGround ==
  (Interpolated /\ posOut.solved /\ Sign(DistD) > 0) => Sign(posOut.D.y) >= 0

(* v modulo 360, for an angle in degrees *)
Mod360(x) == x.v % 360

(* C27: for every input angle at which the linkage can be assembled with   *)
(* d > 0, interpolateOutputAngle returns, modulo 360 degrees, the degree   *)
(* value of what solveFourBarPhi returns in mode 'closed' (delta - gamma), *)
(* and not the open value delta + gamma unless gamma is 0 or pi.           *)
C27_LegacyIsClosed ==
  (Interpolated /\ ~PosUnreachable /\ Sign(DistD) > 0) =>
    /\ posOut.solved
    /\ posOut.deg.k = "deg"
    /\ Mod360(posOut.deg) = Mod360(ToDegrees(PhiUnder("closed")))
    /\ PhiUnder("closed") = ClosedPhi
    /\ Gamma \notin { Ang(0), Ang(PI) }
         => Mod360(posOut.deg) # Mod360(ToDegrees(PhiUnder("open")))

(* the closed value lies outside (-180, 180] and the two candidates differ *)
C27_Witness ==
  /\ Interpolated
  /\ ~PosUnreachable
  /\ Sign(DistD) > 0
  /\ Gamma \notin { Ang(0), Ang(PI) }
  /\ ClosedPhi.v < -PI
  /\ posOut.deg = InDegrees(ToDegrees(ClosedPhi).v + 360)
  /\ Sign(posOut.D.y) > 0

----------------------------------------------------------------------------
(* The sweep of the page of 4bar_synthesis.js, checked under SpecOld *)

(* C28: after every step of animateLinkage with a solution present,        *)
(* currentInputAngle lies within [min(inputAngles), max(inputAngles)].     *)
C28_SweepInRange ==
  hist.stepped =>
    /\ MinOf(ui.inputAngles) <= ui.currentInputAngle
    /\ ui.currentInputAngle <= MaxOf(ui.inputAngles)

----------------------------------------------------------------------------
(* Properties of doubleRockerSynthesis, checked under SpecSearch *)

(* both search variables are above zero *)
SearchPositive == Sign(norm.x[1]) > 0 /\ Sign(norm.x[2]) > 0

(* a step that replaces the current point does not raise its cost *)
CostNotRaised ==
  norm'.x # norm.x =>
    /\ ~IsNaN(cost(norm'.x, synIn.inputAngles, synIn.outputAngles))
    /\ ~Lt(cost(norm.x, synIn.inputAngles, synIn.outputAngles),
           cost(norm'.x, synIn.inputAngles, synIn.outputAngles))

(* the returned input and output lengths are above zero *)
ReturnedPositive ==
  (synOut.status = "returned" /\ Sign(synIn.groundLen) > 0) =>
    Sign(synOut.inputLen) > 0 /\ Sign(synOut.outputLen) > 0

(* |u - v| < 1e-6 for two returned lengths; multiples of Number.MIN_VALUE  *)
(* differ by less                                                          *)
WithinMillionth(u, v) ==
  IF IsDenormal(u) \/ IsDenormal(v) THEN TRUE
  ELSE BelowPow10(MathAbs(Sub(u, v)), 6)

(* C18: the lengths returned by doubleRockerSynthesis for three precision  *)
(* pairs give a constant coupler length: the returned d1, d2, d3 satisfy   *)
(* |d1 - d2| < 1e-6 and |d2 - d3| < 1e-6.                                  *)
C18_ConstantCoupler ==
  synOut.status = "returned" =>
    /\ WithinMillionth(synOut.d1, synOut.d2)
    /\ WithinMillionth(synOut.d2, synOut.d3)

(* v * scale is at most half of Number.MIN_VALUE *)
Underflows(v, scale) == IsDenormal(scale) /\ ~Lt(Half, Mul(v, Int2Q(scale.a)))

(* the returned input and output lengths are not below zero, and above     *)
(* zero where the product with the scale does not underflow                *)
ReturnedPositiveOrUnderflow ==
  (synOut.status = "returned" /\ Sign(synIn.groundLen) > 0) =>
    /\ Sign(synOut.inputLen) >= 0 /\ Sign(synOut.outputLen) >= 0
    /\ Sign(synOut.inputLen) = 0 <=> Underflows(norm.x[1], Scale(synIn.groundLen))
    /\ Sign(synOut.outputLen) = 0 <=> Underflows(norm.x[2], Scale(synIn.groundLen))

(* C29 as stated: throughout the search of doubleRockerSynthesis both      *)
(* search variables stay strictly positive, no accepted move raises the    *)
(* cost of the current point, and for a positive ground length the         *)
(* returned inputLen and outputLen are strictly positive.                  *)
C29_ReturnedStrictlyPositive ==
  [](SearchPositive /\ ReturnedPositive) /\ [][CostNotRaised]_vars

(* C29, amended: throughout the search both search variables stay strictly *)
(* positive and no accepted move raises the cost of the current point; for *)
(* a positive ground length the returned inputLen and outputLen are never  *)
(* negative, and they are zero exactly where the product of the search     *)
(* variable and the ground length underflows.                              *)
C29_SearchStaysPositive ==
  [](SearchPositive /\ ReturnedPositiveOrUnderflow) /\ [][CostNotRaised]_vars

(* a call with a ground length of 1 or more has returned after the search  *)
(* walked both variables down to one step above zero, where line 34 skips  *)
(* the next move down, and the returned lengths are above zero             *)
C29_Witness ==
  /\ synOut.status = "returned"
  /\ ~IsDenormal(synIn.groundLen)
  /\ Sign(synIn.groundLen) > 0
  /\ norm.x = << FirstStep, FirstStep >>
  /\ norm.step = Mul(FirstStep, Half)
  /\ Sign(synOut.inputLen) > 0
  /\ Sign(synOut.outputLen) > 0

====
